---- MODULE Spec2Model ----
(***************************************************************************)
(* Model of the IAM session client (src/src/IAMClient.ts, class IAMClient  *)
(* at lines 629-1310): the current token, the token verification cache,    *)
(* the permission reconciler, the error normalizer and the asynchronous    *)
(* operations, each split at its single await into a call step (the code   *)
(* up to the request being handed to the transport) and a settle step (the *)
(* code after the await, run when the transport delivers the outcome).     *)
(* The remote service and the transport are the environment: every outcome *)
(* they can produce is a nondeterministic choice of the settle step.       *)
(***************************************************************************)
EXTENDS Bags, FiniteSets, Integers, Sequences, TLC

\* ------------------------------------------------------------------ bounds
\* Largest number of requests in flight at once.
MaxCalls == 1
\* Largest value of the wall clock (Date.now()), in milliseconds.
MaxNow == 60000
\* Longest flat permission list, most roles of a user, most permissions of a role.
MaxFlat == 2
MaxRoles == 2
MaxPerms == 2
\* Most fields of a field-error map, most messages of one field.
MaxFields == 2
MaxMsgs == 2

\* Largest number of requests in flight at once where calls race.
MaxRacing == 2

\* --------------------------------------------------------- program constants
cacheDuration == 60000

\* ------------------------------------------------------------------- values
\* JavaScript null / undefined (an omitted optional argument, this.token = null).
None == "null"
\* The token strings the environment supplies.
Tokens == {"T1", "T2"}
\* Amounts by which the clock advances between two steps of the program.
ClockSteps == {59999, 60000}

Range(s) == {s[i] : i \in DOMAIN s}

\* An optional JSON array: absent (undefined/null), an array, or a value that
\* is truthy but not iterable (a JSON object where an array is expected).
Absent == [tag |-> "absent", items |-> <<>>]
List(items) == [tag |-> "list", items |-> items]
NotIterable == [tag |-> "bad", items |-> <<>>]

\* A permission inside a role: a bare string, an object with a name, or null.
PStr(n) == [kind |-> "string", name |-> n]
PObj(n) == [kind |-> "object", name |-> n]
PNull == [kind |-> "null", name |-> None]

\* ------------------------------------------------- permission reconciliation
\* An add that appends without looking for the value.
SetAddAlways(set, x) == Append(set, x)

\* Set.prototype.add on an insertion-ordered set.
SetAdd(set, x) == IF x \in Range(set) THEN set ELSE Append(set, x)

RECURSIVE SetAddAll(_, _)
SetAddAll(set, items) ==
    IF items = <<>> THEN set
    ELSE SetAddAll(SetAdd(set, Head(items)), Tail(items))

\* typeof permission === 'string' ? permission : permission.name
PermName(permission) == permission.name

\* Reading .name of null throws a TypeError.
PermThrows(permission) == permission.kind = "null"

RECURSIVE AddRolePerms(_, _)
\* The inner loop over role.permissions; the result carries whether it threw.
AddRolePerms(acc, perms) ==
    IF acc.threw \/ perms = <<>> THEN acc
    ELSE IF PermThrows(Head(perms)) THEN [acc EXCEPT !.threw = TRUE]
    ELSE AddRolePerms([acc EXCEPT !.set = SetAdd(acc.set, PermName(Head(perms)))],
                      Tail(perms))

RECURSIVE AddRoles(_, _)
\* The outer loop over user.roles.
AddRoles(acc, roles) ==
    IF acc.threw \/ roles = <<>> THEN acc
    ELSE LET role == Head(roles) IN
         IF role.permissions.tag = "absent" THEN AddRoles(acc, Tail(roles))
         ELSE IF role.permissions.tag = "bad" THEN [acc EXCEPT !.threw = TRUE]
         ELSE AddRoles(AddRolePerms(acc, role.permissions.items), Tail(roles))

\* new Set(response.permissions || []), then the roles of response.user.
extractPermissionsFromLoginResponse(response) ==
    IF response.permissions.tag = "bad" THEN [threw |-> TRUE, set |-> <<>>]
    ELSE LET seed == [threw |-> FALSE,
                      set |-> SetAddAll(<<>>, response.permissions.items)] IN
         IF response.user.roles.tag = "absent" THEN seed
         ELSE IF response.user.roles.tag = "bad" THEN [seed EXCEPT !.threw = TRUE]
         ELSE AddRoles(seed, response.user.roles.items)

\* Same reconciliation; the result is a copy of data with permissions replaced.
enrichPermissionsFromRoles(data) ==
    LET r == extractPermissionsFromLoginResponse(data) IN
    [threw |-> r.threw,
     data |-> [data EXCEPT !.permissions = List(r.set)]]

\* ------------------------------------------------------------ error normalizer
\* A text is a sequence of string fragments; concatenation is \o.
RECURSIVE Join(_, _)
\* Array.prototype.join
Join(parts, sep) ==
    IF parts = <<>> THEN <<>>
    ELSE IF Len(parts) = 1 THEN Head(parts)
    ELSE Head(parts) \o <<sep>> \o Join(Tail(parts), sep)

\* Errors the transport raises: no response at all, or a non-2xx response.
NoBody == [message |-> None, errors |-> Absent]
NetworkError ==
    [isAxios |-> TRUE, hasData |-> FALSE, status |-> 0, data |-> NoBody,
     message |-> "Network Error"]
Http401 ==
    [isAxios |-> TRUE, hasData |-> TRUE, status |-> 401,
     data |-> [message |-> "Unauthenticated.", errors |-> Absent],
     message |-> "Request failed with status code 401"]
Http422 ==
    [isAxios |-> TRUE, hasData |-> TRUE, status |-> 422,
     data |-> [message |-> "The given data was invalid.",
               errors |-> List(<<[field |-> "email", isArray |-> TRUE,
                                  msgs |-> <<"Invalid credentials">>]>>)],
     message |-> "Request failed with status code 422"]
\* An exception raised by the client's own code while handling a 2xx response.
TypeError ==
    [isAxios |-> FALSE, hasData |-> FALSE, status |-> 0, data |-> NoBody,
     message |-> "TypeError"]
TransportErrors == {NetworkError, Http401}

\* msgs.join(', ') of one field of the field-error map.
FieldText(entry) == Join([i \in DOMAIN entry.msgs |-> <<entry.msgs[i]>>], ", ")

\* Object.entries(errorData.errors).map(...).join('; ')
FieldErrorsText(errors) ==
    Join([i \in DOMAIN errors.items |-> FieldText(errors.items[i])], "; ")

handleError(error, message, preferDetailedMessage) ==
    IF error.isAxios /\ error.hasData THEN
        LET errorData == error.data
            hasErrors == errorData.errors.tag # "absent"
            first == IF hasErrors /\ errorData.errors.items # <<>>
                     THEN errorData.errors.items[1]
                     ELSE [field |-> None, isArray |-> FALSE, msgs |-> <<>>]
            m1 == IF preferDetailedMessage /\ hasErrors
                  THEN IF first.isArray /\ Len(first.msgs) > 0
                       THEN <<first.msgs[1]>> ELSE message
                  ELSE IF errorData.message # None
                       THEN <<errorData.message>> ELSE message
            fieldErrors == IF hasErrors THEN FieldErrorsText(errorData.errors)
                           ELSE <<>>
            m2 == IF m1 = message /\ hasErrors /\ fieldErrors # <<>>
                  THEN fieldErrors ELSE m1
        IN [message |-> m2, data |-> errorData, statusCode |-> error.status]
    ELSE [message |-> message \o <<": ", error.message>>,
          data |-> NoBody, statusCode |-> 0]

\* ------------------------------------------------------- the remote service
\* Payloads of a 2xx body: the flat permission list and the roles of the user.
ShapeA ==
    [permissions |-> List(<<"a", "b">>),
     roles |-> List(<<[permissions |-> List(<<PObj("b"), PStr("c")>>)]>>)]
ShapeB ==
    [permissions |-> Absent,
     roles |-> List(<<[permissions |-> Absent],
                      [permissions |-> List(<<PObj("forms.create")>>)]>>)]
\* A role whose permissions field is a JSON object instead of an array.
ShapeBad ==
    [permissions |-> Absent,
     roles |-> List(<<[permissions |-> NotIterable]>>)]
Shapes == {ShapeA, ShapeB, ShapeBad}
\* The payloads GET /auth/me answers with.
MeShapes == {ShapeA, ShapeBad}

\* The identity the service attaches to a token.
\* Without a bearer token it is the user of the session cookie.
UserOf(t) == IF t = "T1" THEN "alice" ELSE IF t = "T2" THEN "bob" ELSE "carol"

\* Body of GET /auth/me answered for the bearer token auth.
MeBody(auth, shape) ==
    [user |-> [id |-> UserOf(auth), roles |-> shape.roles],
     permissions |-> shape.permissions]

\* Body of POST /auth/login and /auth/login-with-phone.
LoginBody(accessToken, shape) ==
    [access_token |-> accessToken,
     user |-> [id |-> UserOf(accessToken), roles |-> shape.roles],
     permissions |-> shape.permissions]

\* ---------------------------------------------------------------- the state
VARIABLES
    config,      \* IAMConfig: which callbacks the constructor was given
    token,       \* this.token
    tokenCache,  \* this.tokenCache: cache key -> [data, timestamp]
    now,         \* Date.now()
    calls,       \* requests handed to the transport and not yet settled
    last,        \* the step just taken: operation, outcome, request, callbacks
    \* The session binding (src/src/react/IAMContext.tsx, IAMProvider):
    user,          \* const [user, setUser] = useState(null)
    providerToken, \* const [token, setToken] = useState(null)
    isLoading,     \* const [isLoading, setIsLoading] = useState(true)
    storage,       \* localStorage[tokenStorageKey]
    started,       \* the mount effect of the provider has run
    stale,         \* the provider committed state its consumers have not rendered
    route,         \* one ProtectedRoute instance
    hook,          \* one instance of a hook of src/src/react/hooks.ts
    \* The pure functions checked on their own:
    input,         \* the argument the function is applied to
    output         \* the value it returned

reactVars == <<user, providerToken, isLoading, storage, started, stale, route, hook>>
pureVars == <<input, output>>
\* Everything outside the IAMClient instance.
ext == <<reactVars, pureVars>>
vars == <<config, token, tokenCache, now, calls, last, ext>>

Configs ==
    {[onTokenRefresh |-> TRUE, onAuthError |-> TRUE],
     [onTokenRefresh |-> FALSE, onAuthError |-> FALSE]}

\* `token_${tokenToVerify}`
cacheKey(t) == <<"token_", t>>

\* Map.prototype.has / set / delete / clear
MapHas(m, k) == k \in DOMAIN m
MapSet(m, k, v) == [x \in DOMAIN m \cup {k} |-> IF x = k THEN v ELSE m[x]]
MapDelete(m, k) == [x \in DOMAIN m \ {k} |-> m[x]]
EmptyMap == [x \in {} |-> None]

\* The validity test with the boundary included.
CacheValidInclusive(m, k, t) == MapHas(m, k) /\ t - m[k].timestamp <= cacheDuration

\* cached && Date.now() - cached.timestamp < this.cacheDuration
CacheValid(m, k, t) == MapHas(m, k) /\ t - m[k].timestamp < cacheDuration

\* The request interceptor: the Authorization header the request leaves with,
\* given the header the caller put into the request options.
RequestInterceptor(auth) == IF token # None THEN token ELSE auth

\* const headers = token ? { Authorization: `Bearer ${token}` } : {}
OptionalHeader(arg) == IF arg # None THEN arg ELSE None

\* The response interceptor: callbacks it invokes for a transport error.
ResponseInterceptor(err) ==
    IF err.status = 401 /\ config.onAuthError
    THEN <<[name |-> "onAuthError", arg |-> None, tokenAtCall |-> token]>>
    ELSE <<>>

NoValue == [kind |-> "none"]
\* No request was issued in the step / the request issued in the step.
NoRequest == [path |-> None, auth |-> None]
Issued(path, auth) == [path |-> path, auth |-> auth]
\* The record of a step: the method, the part of it that ran ("sync", "call"
\* up to the await, "settle" after it), how the promise stands after the
\* step, the explicit token argument, the effective token, the request the
\* step issued, what the transport delivered to it, the value returned or
\* raised, the callbacks invoked, and token and cache before the step.
Ev(op, phase, outcome, arg, key, req, resp, value, cb) ==
    [op |-> op, phase |-> phase, outcome |-> outcome, arg |-> arg, key |-> key,
     req |-> req, resp |-> resp, value |-> value, cb |-> cb,
     was |-> [token |-> token, cache |-> tokenCache]]
SyncEv(op, arg) ==
    Ev(op, "sync", "returned", arg, None, NoRequest, "none", NoValue, <<>>)

Request(op, path, key, auth) == [op |-> op, path |-> path, key |-> key, auth |-> auth]
InFlight(op) == {c \in BagToSet(calls) : c.op = op}
Send(c) == calls (+) SetToBag({c})
Receive(c) == calls (-) SetToBag({c})
\* The transport takes one more request while fewer than limit are in flight.
CanSendWithin(limit) == BagCardinality(calls) < limit
CanSend == CanSendWithin(MaxCalls)

\* No provider, route or hook exists: the client is used on its own.
NoRoute == [mounted |-> FALSE]
NoHook == [mounted |-> FALSE]
NoUser == [id |-> None, roles |-> Absent]
NoReact ==
    /\ user = NoUser
    /\ providerToken = None
    /\ isLoading = TRUE
    /\ storage = None
    /\ started = FALSE
    /\ stale = FALSE
    /\ route = NoRoute
    /\ hook = NoHook
\* No pure function is being applied.
NoPure ==
    /\ input = NoValue
    /\ output = NoValue

Init ==
    /\ config \in Configs
    /\ token = None
    /\ tokenCache = EmptyMap
    /\ now = 0
    /\ calls = EmptyBag
    /\ last = SyncEv("new", None)
    /\ NoReact
    /\ NoPure

\* ------------------------------------------------------ synchronous methods
getToken == token

\* A setToken that keeps a token already set.
setTokenIfAbsent(t) ==
    /\ token' = IF token = None THEN t ELSE token
    /\ last' = SyncEv("setToken", t)
    /\ UNCHANGED <<ext, config, tokenCache, now, calls>>

setToken(t) ==
    /\ token' = t
    /\ last' = SyncEv("setToken", t)
    /\ UNCHANGED <<ext, config, tokenCache, now, calls>>

clearTokenCache ==
    /\ tokenCache' = EmptyMap
    /\ last' = SyncEv("clearTokenCache", None)
    /\ UNCHANGED <<ext, config, token, now, calls>>

\* A clearToken that forgets the call to clearTokenCache.
clearTokenKeepsCache ==
    /\ token' = None
    /\ last' = SyncEv("clearToken", None)
    /\ UNCHANGED <<ext, config, tokenCache, now, calls>>


clearToken ==
    /\ token' = None
    /\ tokenCache' = EmptyMap
    /\ last' = SyncEv("clearToken", None)
    /\ UNCHANGED <<ext, config, now, calls>>

\* Time passes between two steps of the program.
Tick(d) ==
    /\ now + d <= MaxNow
    /\ now' = now + d
    /\ last' = SyncEv("tick", None)
    /\ UNCHANGED <<ext, config, token, tokenCache, calls>>

\* ------------------------------------------------------------- verifyToken
ErrorValue(e) == [kind |-> "error", error |-> e]
\* new Error('No token provided')
NoTokenError ==
    [message |-> <<"No token provided">>, data |-> NoBody, statusCode |-> 0]

\* A resolution that prefers the current token over the argument.
EffectiveTokenCurrentFirst(arg) == IF token # None THEN token ELSE arg

\* const tokenToVerify = token || this.token
EffectiveToken(arg) == IF arg # None THEN arg ELSE token

\* verifyToken up to its await: the no-token error, the cache hit, or the
\* GET /auth/me request with the explicit Authorization header.
verifyTokenStart(arg, limit) ==
    LET tokenToVerify == EffectiveToken(arg)
        key == cacheKey(tokenToVerify)
    IN
    /\ IF tokenToVerify = None THEN
          /\ last' = Ev("verifyToken", "call", "rejected", arg, None, NoRequest,
                        "none", ErrorValue(NoTokenError), <<>>)
          /\ calls' = calls
       ELSE IF CacheValid(tokenCache, key, now) THEN
          /\ last' = Ev("verifyToken", "call", "resolved", arg, tokenToVerify,
                        NoRequest, "none",
                        [kind |-> "data", data |-> tokenCache[key].data], <<>>)
          /\ calls' = calls
       ELSE
          /\ CanSendWithin(limit)
          /\ calls' = Send(Request("verifyToken", "/auth/me", tokenToVerify,
                                   RequestInterceptor(tokenToVerify)))
          /\ last' = Ev("verifyToken", "call", "pending", arg, tokenToVerify,
                        Issued("/auth/me", RequestInterceptor(tokenToVerify)),
                        "none", NoValue, <<>>)
    /\ UNCHANGED <<ext, config, token, tokenCache, now>>

verifyTokenCall(arg) == verifyTokenStart(arg, MaxCalls)

\* A catch branch that clears the whole cache.
verifyTokenCatchClearsAll(m, key) == EmptyMap

\* The catch branch of verifyToken: the cache after it.
verifyTokenCatch(m, key) == MapDelete(m, key)

\* A cache write that keeps an entry another response wrote meanwhile.
verifyTokenOkFirstWins(c, shape) ==
    LET enriched == enrichPermissionsFromRoles(MeBody(c.auth, shape)) IN
    /\ c \in InFlight("verifyToken")
    /\ calls' = Receive(c)
    /\ IF enriched.threw THEN
          /\ tokenCache' = verifyTokenCatch(tokenCache, cacheKey(c.key))
          /\ last' = Ev("verifyToken", "settle", "rejected", None, c.key,
                        NoRequest, "2xx",
                        ErrorValue(handleError(TypeError,
                                   <<"Token verification failed">>, FALSE)),
                        <<>>)
       ELSE
          /\ tokenCache' = IF MapHas(tokenCache, cacheKey(c.key)) THEN tokenCache
                           ELSE MapSet(tokenCache, cacheKey(c.key),
                                       [data |-> enriched.data, timestamp |-> now])
          /\ last' = Ev("verifyToken", "settle", "resolved", None, c.key,
                        NoRequest, "2xx", [kind |-> "data", data |-> enriched.data],
                        <<>>)
    /\ UNCHANGED <<ext, config, token, now>>

\* verifyToken after its await, for a 2xx response with the given payload.
verifyTokenOk(c, shape) ==
    LET enriched == enrichPermissionsFromRoles(MeBody(c.auth, shape)) IN
    /\ c \in InFlight("verifyToken")
    /\ calls' = Receive(c)
    /\ IF enriched.threw THEN
          /\ tokenCache' = verifyTokenCatch(tokenCache, cacheKey(c.key))
          /\ last' = Ev("verifyToken", "settle", "rejected", None, c.key,
                        NoRequest, "2xx",
                        ErrorValue(handleError(TypeError,
                                   <<"Token verification failed">>, FALSE)),
                        <<>>)
       ELSE
          /\ tokenCache' = MapSet(tokenCache, cacheKey(c.key),
                                  [data |-> enriched.data, timestamp |-> now])
          /\ last' = Ev("verifyToken", "settle", "resolved", None, c.key,
                        NoRequest, "2xx", [kind |-> "data", data |-> enriched.data],
                        <<>>)
    /\ UNCHANGED <<ext, config, token, now>>

\* A catch branch that also drops the current token.
verifyTokenFailClearsToken(c, err) ==
    /\ c \in InFlight("verifyToken")
    /\ calls' = Receive(c)
    /\ token' = None
    /\ tokenCache' = MapDelete(tokenCache, cacheKey(c.key))
    /\ last' = Ev("verifyToken", "settle", "rejected", None, c.key, NoRequest,
                  "error", ErrorValue(handleError(err, <<"Token verification failed">>,
                                         FALSE)),
                  ResponseInterceptor(err))
    /\ UNCHANGED <<ext, config, now>>

\* verifyToken after its await, for a transport error.
verifyTokenFail(c, err) ==
    /\ c \in InFlight("verifyToken")
    /\ calls' = Receive(c)
    /\ tokenCache' = verifyTokenCatch(tokenCache, cacheKey(c.key))
    /\ last' = Ev("verifyToken", "settle", "rejected", None, c.key, NoRequest,
                  "error", ErrorValue(handleError(err, <<"Token verification failed">>,
                                         FALSE)),
                  ResponseInterceptor(err))
    /\ UNCHANGED <<ext, config, token, now>>

\* ----------------------------------------------------------- verifySession
\* verifySession up to its await: a GET through the global axios, not through
\* this.client, so neither interceptor runs; the only credential is the Cookie.
verifySessionCall ==
    /\ CanSend
    /\ calls' = Send(Request("verifySession", "/api/v1/auth/me", None, None))
    /\ last' = Ev("verifySession", "call", "pending", None, None,
                  Issued("/api/v1/auth/me", None), "none", NoValue, <<>>)
    /\ UNCHANGED <<ext, config, token, tokenCache, now>>

verifySessionOk(c, shape) ==
    LET enriched == enrichPermissionsFromRoles(MeBody(c.auth, shape)) IN
    /\ c \in InFlight("verifySession")
    /\ calls' = Receive(c)
    /\ last' = IF enriched.threw
               THEN Ev("verifySession", "settle", "rejected", None, None,
                       NoRequest, "2xx",
                       ErrorValue(handleError(TypeError,
                                  <<"Session verification failed">>, FALSE)),
                       <<>>)
               ELSE Ev("verifySession", "settle", "resolved", None, None,
                       NoRequest, "2xx",
                       [kind |-> "data", data |-> enriched.data], <<>>)
    /\ UNCHANGED <<ext, config, token, tokenCache, now>>

verifySessionFail(c, err) ==
    /\ c \in InFlight("verifySession")
    /\ calls' = Receive(c)
    /\ last' = Ev("verifySession", "settle", "rejected", None, None, NoRequest,
                  "error",
                  ErrorValue(handleError(err, <<"Session verification failed">>,
                                         FALSE)),
                  <<>>)
    /\ UNCHANGED <<ext, config, token, tokenCache, now>>

\* ------------------------------------------------- hasPermission / hasRole
BoolValue(b) == [kind |-> "bool", bool |-> b]

\* A catch branch that re-raises the normalized error instead.
CheckCatchRethrows ==
    [outcome |-> "rejected",
     value |-> ErrorValue(handleError(NetworkError, <<"Permission check failed">>,
                                      FALSE))]

\* The catch branch of hasPermission and hasRole: log, return false.
CheckCatch == [outcome |-> "resolved", value |-> BoolValue(FALSE)]

\* A method whose code up to the await only builds the optional header and
\* posts: hasPermission, hasRole, refreshToken, logout, logoutAll.
PostStart(op, path, arg, limit) ==
    /\ CanSendWithin(limit)
    /\ calls' = Send(Request(op, path, None, None))
    /\ last' = Ev(op, "call", "pending", arg, None,
                  Issued(path, RequestInterceptor(OptionalHeader(arg))),
                  "none", NoValue, <<>>)
    /\ UNCHANGED <<ext, config, token, tokenCache, now>>

PostCall(op, path, arg) == PostStart(op, path, arg, MaxCalls)

hasPermissionCall(arg) == PostCall("hasPermission", "/auth/check-permission", arg)
hasRoleCall(arg) == PostCall("hasRole", "/auth/check-role", arg)

\* return response.data.has_permission / response.data.has_role
CheckOk(op, c, answer) ==
    /\ c \in InFlight(op)
    /\ calls' = Receive(c)
    /\ last' = Ev(op, "settle", "resolved", None, None, NoRequest, "2xx",
                  BoolValue(answer), <<>>)
    /\ UNCHANGED <<ext, config, token, tokenCache, now>>

CheckFail(op, c, err) ==
    /\ c \in InFlight(op)
    /\ calls' = Receive(c)
    /\ last' = Ev(op, "settle", CheckCatch.outcome, None, None, NoRequest,
                  "error", CheckCatch.value, ResponseInterceptor(err))
    /\ UNCHANGED <<ext, config, token, tokenCache, now>>

hasPermissionOk(c, answer) == CheckOk("hasPermission", c, answer)
hasPermissionFail(c, err) == CheckFail("hasPermission", c, err)
hasRoleOk(c, answer) == CheckOk("hasRole", c, answer)
hasRoleFail(c, err) == CheckFail("hasRole", c, err)

\* ------------------------------------------------------------ refreshToken
refreshTokenCall(arg) == PostCall("refreshToken", "/auth/refresh", arg)

\* A refresh that keeps a token another response stored meanwhile.
RefreshedTokenFirstWins(accessToken) ==
    IF accessToken # None /\ token = None THEN accessToken ELSE token

\* The token after a 2xx refresh response: if (response.data.access_token)
RefreshedToken(accessToken) == IF accessToken # None THEN accessToken ELSE token

\* The callback invoked before setToken: this.token is still the old token.
RefreshCallbacksBeforeSet(accessToken, newToken) ==
    IF accessToken # None /\ config.onTokenRefresh
    THEN <<[name |-> "onTokenRefresh", arg |-> accessToken,
            tokenAtCall |-> token]>>
    ELSE <<>>

\* The callbacks a 2xx refresh response invokes; newToken is this.token at
\* the moment of the invocation.
RefreshCallbacks(accessToken, newToken) ==
    IF accessToken # None /\ config.onTokenRefresh
    THEN <<[name |-> "onTokenRefresh", arg |-> accessToken,
            tokenAtCall |-> newToken]>>
    ELSE <<>>

refreshTokenOk(c, accessToken) ==
    /\ c \in InFlight("refreshToken")
    /\ calls' = Receive(c)
    /\ token' = RefreshedToken(accessToken)
    /\ last' = Ev("refreshToken", "settle", "resolved", None, None, NoRequest,
                  "2xx", [kind |-> "refresh", access_token |-> accessToken],
                  RefreshCallbacks(accessToken, token'))
    /\ UNCHANGED <<ext, config, tokenCache, now>>

refreshTokenFail(c, err) ==
    /\ c \in InFlight("refreshToken")
    /\ calls' = Receive(c)
    /\ last' = Ev("refreshToken", "settle", "rejected", None, None, NoRequest,
                  "error", ErrorValue(handleError(err, <<"Token refresh failed">>, FALSE)),
                  ResponseInterceptor(err))
    /\ UNCHANGED <<ext, config, token, tokenCache, now>>

\* ------------------------------------------------- login / loginWithPhone
LoginStart(op, path, limit) ==
    /\ CanSendWithin(limit)
    /\ calls' = Send(Request(op, path, None, None))
    /\ last' = Ev(op, "call", "pending", None, None,
                  Issued(path, RequestInterceptor(None)), "none", NoValue, <<>>)
    /\ UNCHANGED <<ext, config, token, tokenCache, now>>

LoginCall(op, path) == LoginStart(op, path, MaxCalls)

\* A login that returns the response without calling setToken.
LoginOkKeepsToken(op, message, prefer, c, accessToken, shape) ==
    LET body == LoginBody(accessToken, shape)
        perms == extractPermissionsFromLoginResponse(body)
    IN
    /\ c \in InFlight(op)
    /\ calls' = Receive(c)
    /\ last' = IF perms.threw
               THEN Ev(op, "settle", "rejected", None, None, NoRequest, "2xx",
                       ErrorValue(handleError(TypeError, message, prefer)), <<>>)
               ELSE Ev(op, "settle", "resolved", None, None, NoRequest, "2xx",
                       [kind |-> "login",
                        response |-> [body EXCEPT !.permissions = List(perms.set)]],
                       <<>>)
    /\ UNCHANGED <<ext, config, token, tokenCache, now>>

\* After the await, 2xx: setToken(access_token), then the reconciliation,
\* whose exception is caught by the method's catch and re-raised normalized.
LoginOk(op, message, prefer, c, accessToken, shape) ==
    LET body == LoginBody(accessToken, shape)
        perms == extractPermissionsFromLoginResponse(body)
    IN
    /\ c \in InFlight(op)
    /\ calls' = Receive(c)
    /\ token' = body.access_token
    /\ last' = IF perms.threw
               THEN Ev(op, "settle", "rejected", None, None, NoRequest, "2xx",
                       ErrorValue(handleError(TypeError, message, prefer)), <<>>)
               ELSE Ev(op, "settle", "resolved", None, None, NoRequest, "2xx",
                       [kind |-> "login",
                        response |-> [body EXCEPT !.permissions = List(perms.set)]],
                       <<>>)
    /\ UNCHANGED <<ext, config, tokenCache, now>>

LoginFail(op, message, prefer, c, err) ==
    /\ c \in InFlight(op)
    /\ calls' = Receive(c)
    /\ last' = Ev(op, "settle", "rejected", None, None, NoRequest, "error",
                  ErrorValue(handleError(err, message, prefer)),
                  ResponseInterceptor(err))
    /\ UNCHANGED <<ext, config, token, tokenCache, now>>

loginCall == LoginCall("login", "/auth/login")
loginOk(c, accessToken, shape) ==
    LoginOk("login", <<"Login failed">>, FALSE, c, accessToken, shape)
loginFail(c, err) == LoginFail("login", <<"Login failed">>, FALSE, c, err)

loginWithPhoneCall == LoginCall("loginWithPhone", "/auth/login-with-phone")
loginWithPhoneOk(c, accessToken, shape) ==
    LoginOk("loginWithPhone", <<"Phone login failed">>, TRUE, c, accessToken, shape)
loginWithPhoneFail(c, err) ==
    LoginFail("loginWithPhone", <<"Phone login failed">>, TRUE, c, err)

\* ------------------------------------------------------ logout / logoutAll
logoutCall(arg) == PostCall("logout", "/auth/logout", arg)
logoutAllCall(arg) == PostCall("logoutAll", "/auth/logout-all", arg)

VoidValue == [kind |-> "void"]

\* logout after its await: clearToken() in the try and in the catch.
logoutOk(c) ==
    /\ c \in InFlight("logout")
    /\ calls' = Receive(c)
    /\ token' = None
    /\ tokenCache' = EmptyMap
    /\ last' = Ev("logout", "settle", "resolved", None, None, NoRequest,
                  "2xx", VoidValue, <<>>)
    /\ UNCHANGED <<ext, config, now>>

\* A logout whose catch branch re-raises like logoutAll does.
logoutFailRethrows(c, err) ==
    /\ c \in InFlight("logout")
    /\ calls' = Receive(c)
    /\ last' = Ev("logout", "settle", "rejected", None, None, NoRequest,
                  "error", ErrorValue(handleError(err, <<"Logout failed">>, FALSE)),
                  ResponseInterceptor(err))
    /\ UNCHANGED <<ext, config, token, tokenCache, now>>


logoutFail(c, err) ==
    /\ c \in InFlight("logout")
    /\ calls' = Receive(c)
    /\ token' = None
    /\ tokenCache' = EmptyMap
    /\ last' = Ev("logout", "settle", "resolved", None, None, NoRequest,
                  "error", VoidValue, ResponseInterceptor(err))
    /\ UNCHANGED <<ext, config, now>>

logoutAllOk(c) ==
    /\ c \in InFlight("logoutAll")
    /\ calls' = Receive(c)
    /\ token' = None
    /\ tokenCache' = EmptyMap
    /\ last' = Ev("logoutAll", "settle", "resolved", None, None, NoRequest,
                  "2xx", VoidValue, <<>>)
    /\ UNCHANGED <<ext, config, now>>

\* A logoutAll whose catch branch clears the token like logout does.
logoutAllFailClears(c, err) ==
    /\ c \in InFlight("logoutAll")
    /\ calls' = Receive(c)
    /\ token' = None
    /\ tokenCache' = EmptyMap
    /\ last' = Ev("logoutAll", "settle", "rejected", None, None, NoRequest,
                  "error", ErrorValue(handleError(err, <<"Logout all failed">>, FALSE)),
                  ResponseInterceptor(err))
    /\ UNCHANGED <<ext, config, now>>

logoutAllFail(c, err) ==
    /\ c \in InFlight("logoutAll")
    /\ calls' = Receive(c)
    /\ last' = Ev("logoutAll", "settle", "rejected", None, None, NoRequest,
                  "error", ErrorValue(handleError(err, <<"Logout all failed">>, FALSE)),
                  ResponseInterceptor(err))
    /\ UNCHANGED <<ext, config, token, tokenCache, now>>

\* ------------------------------------------------------------ specification
Args == Tokens \cup {None}

Next ==
    \/ \E t \in Tokens : setToken(t)
    \/ clearToken
    \/ clearTokenCache
    \/ \E d \in ClockSteps : Tick(d)
    \/ \E a \in Args : verifyTokenCall(a)
    \/ \E c \in BagToSet(calls), s \in MeShapes : verifyTokenOk(c, s)
    \/ \E c \in BagToSet(calls), e \in TransportErrors : verifyTokenFail(c, e)
    \/ verifySessionCall
    \/ \E c \in BagToSet(calls), s \in MeShapes : verifySessionOk(c, s)
    \/ \E c \in BagToSet(calls), e \in TransportErrors : verifySessionFail(c, e)
    \/ \E a \in Args : hasPermissionCall(a)
    \/ \E c \in BagToSet(calls), b \in BOOLEAN : hasPermissionOk(c, b)
    \/ \E c \in BagToSet(calls), e \in TransportErrors : hasPermissionFail(c, e)
    \/ \E a \in Args : hasRoleCall(a)
    \/ \E c \in BagToSet(calls), b \in BOOLEAN : hasRoleOk(c, b)
    \/ \E c \in BagToSet(calls), e \in TransportErrors : hasRoleFail(c, e)
    \/ \E a \in Args : refreshTokenCall(a)
    \/ \E c \in BagToSet(calls), t \in Args : refreshTokenOk(c, t)
    \/ \E c \in BagToSet(calls), e \in TransportErrors : refreshTokenFail(c, e)
    \/ loginCall
    \/ \E c \in BagToSet(calls), t \in Tokens, s \in Shapes : loginOk(c, t, s)
    \/ \E c \in BagToSet(calls), e \in TransportErrors : loginFail(c, e)
    \/ loginWithPhoneCall
    \/ \E c \in BagToSet(calls), t \in Tokens, s \in Shapes :
           loginWithPhoneOk(c, t, s)
    \/ \E c \in BagToSet(calls), e \in TransportErrors : loginWithPhoneFail(c, e)
    \/ \E a \in Args : logoutCall(a)
    \/ \E c \in BagToSet(calls) : logoutOk(c)
    \/ \E c \in BagToSet(calls), e \in TransportErrors : logoutFail(c, e)
    \/ \E a \in Args : logoutAllCall(a)
    \/ \E c \in BagToSet(calls) : logoutAllOk(c)
    \/ \E c \in BagToSet(calls), e \in TransportErrors : logoutAllFail(c, e)

Spec == Init /\ [][Next]_vars

\* ------------------------------------------ logins that fail validation
\* The login methods alone, with the errors the service answers a login
\* with: no response, 401, and 422 with a message and a field-error map.
LoginErrors == TransportErrors \cup {Http422}

NextLogin ==
    \/ \E t \in Tokens : setToken(t)
    \/ clearToken
    \/ loginCall
    \/ \E c \in BagToSet(calls), t \in Tokens, s \in Shapes : loginOk(c, t, s)
    \/ \E c \in BagToSet(calls), e \in LoginErrors : loginFail(c, e)
    \/ loginWithPhoneCall
    \/ \E c \in BagToSet(calls), t \in Tokens, s \in Shapes :
           loginWithPhoneOk(c, t, s)
    \/ \E c \in BagToSet(calls), e \in LoginErrors : loginWithPhoneFail(c, e)

SpecLogin == Init /\ [][NextLogin]_vars

\* ------------------------------------------------- verifications that race
\* verifyToken called again while earlier calls are in flight, together with
\* the operations that clear the cache: clearToken and logout.
NextVerifyRace ==
    \/ \E a \in Tokens : verifyTokenStart(a, MaxRacing)
    \/ \E c \in BagToSet(calls), s \in Shapes : verifyTokenOk(c, s)
    \/ \E c \in BagToSet(calls), e \in TransportErrors : verifyTokenFail(c, e)
    \/ clearToken
    \/ \E a \in Args : PostStart("logout", "/auth/logout", a, MaxRacing)
    \/ \E c \in BagToSet(calls) : logoutOk(c)
    \/ \E c \in BagToSet(calls), e \in TransportErrors : logoutFail(c, e)

SpecVerifyRace == Init /\ [][NextVerifyRace]_vars

\* ----------------------------------------------- token writers that race
\* login, loginWithPhone, refreshToken and logout called while earlier
\* calls are in flight; the transport delivers the responses in any order.
NextTokenRace ==
    \/ LoginStart("login", "/auth/login", MaxRacing)
    \/ \E c \in BagToSet(calls), t \in Tokens, s \in Shapes : loginOk(c, t, s)
    \/ \E c \in BagToSet(calls), e \in TransportErrors : loginFail(c, e)
    \/ LoginStart("loginWithPhone", "/auth/login-with-phone", MaxRacing)
    \/ \E c \in BagToSet(calls), t \in Tokens, s \in Shapes :
           loginWithPhoneOk(c, t, s)
    \/ \E c \in BagToSet(calls), e \in TransportErrors : loginWithPhoneFail(c, e)
    \/ \E a \in Args : PostStart("refreshToken", "/auth/refresh", a, MaxRacing)
    \/ \E c \in BagToSet(calls), t \in Args : refreshTokenOk(c, t)
    \/ \E c \in BagToSet(calls), e \in TransportErrors : refreshTokenFail(c, e)
    \/ \E a \in Args : PostStart("logout", "/auth/logout", a, MaxRacing)
    \/ \E c \in BagToSet(calls) : logoutOk(c)
    \/ \E c \in BagToSet(calls), e \in TransportErrors : logoutFail(c, e)

SpecTokenRace == Init /\ [][NextTokenRace]_vars

\* ------------------------------------------------------ the session binding
\* IAMProvider (src/src/react/IAMContext.tsx). The provider creates its own
\* IAMClient; every step below is the code of the provider together with the
\* code of the client method it calls, split at the await of that method.

\* The provider re-renders (and with it every consumer of the context) when a
\* state setter is given a value that differs from the current one; setUser
\* with the user object of a response always does.
Rerender(setUserWithObject) ==
    \/ stale
    \/ setUserWithObject
    \/ <<user', providerToken', isLoading'>> # <<user, providerToken, isLoading>>

\* clearAuth: setUser(null); setToken(null); client.clearToken();
\* localStorage.removeItem(tokenStorageKey)
clearAuth ==
    /\ user' = NoUser
    /\ providerToken' = None
    /\ token' = None
    /\ tokenCache' = EmptyMap
    /\ storage' = None

\* A clearAuth that forgets the persisted token.
clearAuthKeepsStorage ==
    /\ user' = NoUser
    /\ providerToken' = None
    /\ token' = None
    /\ tokenCache' = EmptyMap
    /\ storage' = storage

InitProvider ==
    /\ config = [onTokenRefresh |-> TRUE, onAuthError |-> TRUE]
    /\ token = None
    /\ tokenCache = EmptyMap
    /\ now = 0
    /\ calls = EmptyBag
    /\ last = SyncEv("new", None)
    /\ user = NoUser
    /\ providerToken = None
    /\ isLoading = TRUE
    /\ storage \in Tokens \cup {None}
    /\ started = FALSE
    /\ stale = FALSE
    /\ route = NoRoute
    /\ hook = NoHook
    /\ NoPure

\* The mount effect. With a persisted token: client.setToken, setToken and
\* verifyAndLoadUser up to the await inside client.verifyToken (the client
\* was created by this mount, so its cache holds nothing to hit).
MountEffect ==
    /\ ~started
    /\ started' = TRUE
    /\ IF storage # None THEN
          /\ token' = storage
          /\ providerToken' = storage
          /\ calls' = Send(Request("verifyAndLoadUser", "/auth/me", storage, storage))
          /\ last' = Ev("verifyAndLoadUser", "call", "pending", storage, storage,
                        Issued("/auth/me", storage), "none", NoValue, <<>>)
          /\ UNCHANGED <<user, isLoading>>
       ELSE
          /\ isLoading' = FALSE
          /\ last' = Ev("mount", "sync", "returned", None, None, NoRequest,
                        "none", NoValue, <<>>)
          /\ UNCHANGED <<token, providerToken, user, calls>>
    /\ stale' = Rerender(FALSE)
    /\ UNCHANGED <<config, tokenCache, now, storage, route, hook, pureVars>>

\* A failure branch that only logs: what the client's own catch did remains.
verifyAndLoadUserCatchLogsOnly(key) ==
    /\ tokenCache' = verifyTokenCatch(tokenCache, cacheKey(key))
    /\ UNCHANGED <<user, providerToken, token, storage>>

\* The catch of verifyAndLoadUser, reached after the catch of
\* client.verifyToken deleted the cache entry of key: console.error,
\* clearAuth() (whose client.clearToken empties the cache).
verifyAndLoadUserCatch(key) == clearAuth

\* verifyAndLoadUser after its await, 2xx: the client enriches and caches the
\* response and setUser(response.user) runs; an exception of the enrichment
\* takes the catch of the client and then the catch of verifyAndLoadUser.
verifyAndLoadUserOk(c, shape) ==
    LET enriched == enrichPermissionsFromRoles(MeBody(c.auth, shape)) IN
    /\ c \in InFlight("verifyAndLoadUser")
    /\ calls' = Receive(c)
    /\ IF enriched.threw THEN
          /\ verifyAndLoadUserCatch(c.key)
          /\ last' = Ev("verifyAndLoadUser", "settle", "rejected", None, c.key,
                        NoRequest, "2xx",
                        ErrorValue(handleError(TypeError,
                                   <<"Token verification failed">>, FALSE)),
                        <<>>)
       ELSE
          /\ tokenCache' = MapSet(tokenCache, cacheKey(c.key),
                                  [data |-> enriched.data, timestamp |-> now])
          /\ user' = enriched.data.user
          /\ last' = Ev("verifyAndLoadUser", "settle", "resolved", None, c.key,
                        NoRequest, "2xx",
                        [kind |-> "data", data |-> enriched.data], <<>>)
          /\ UNCHANGED <<providerToken, token, storage>>
    /\ isLoading' = FALSE
    /\ stale' = Rerender(~enriched.threw)
    /\ UNCHANGED <<config, now, started, route, hook, pureVars>>

\* verifyAndLoadUser after its await, transport error: the client deletes the
\* cache entry and re-raises, the catch clears, the finally ends the loading.
verifyAndLoadUserFail(c, err) ==
    /\ c \in InFlight("verifyAndLoadUser")
    /\ calls' = Receive(c)
    /\ verifyAndLoadUserCatch(c.key)
    /\ last' = Ev("verifyAndLoadUser", "settle", "rejected", None, c.key,
                  NoRequest, "error",
                  ErrorValue(handleError(err, <<"Token verification failed">>, FALSE)),
                  ResponseInterceptor(err))
    /\ isLoading' = FALSE
    /\ stale' = Rerender(FALSE)
    /\ UNCHANGED <<config, now, started, route, hook, pureVars>>

\* refreshUser up to the await inside client.verifyToken(token): nothing
\* without a reactive token; a cache hit resolves at once and sets the user.
refreshUserStart(limit) ==
    LET key == cacheKey(providerToken) IN
    /\ started
    /\ IF providerToken = None THEN
          /\ last' = Ev("refreshUser", "sync", "resolved", None, None, NoRequest,
                        "none", VoidValue, <<>>)
          /\ UNCHANGED <<user, calls>>
       ELSE IF CacheValid(tokenCache, key, now) THEN
          /\ user' = tokenCache[key].data.user
          /\ last' = Ev("refreshUser", "call", "resolved", providerToken,
                        providerToken, NoRequest, "none", VoidValue, <<>>)
          /\ calls' = calls
       ELSE
          /\ CanSendWithin(limit)
          /\ calls' = Send(Request("refreshUser", "/auth/me", providerToken,
                                   RequestInterceptor(providerToken)))
          /\ last' = Ev("refreshUser", "call", "pending", providerToken,
                        providerToken,
                        Issued("/auth/me", RequestInterceptor(providerToken)),
                        "none", NoValue, <<>>)
          /\ user' = user
    /\ UNCHANGED <<providerToken, isLoading>>
    /\ stale' = Rerender(providerToken # None
                         /\ CacheValid(tokenCache, key, now))
    /\ UNCHANGED <<config, token, tokenCache, now, storage, started, route, hook,
                   pureVars>>

refreshUserCall == refreshUserStart(MaxCalls)

refreshUserOk(c, shape) ==
    LET enriched == enrichPermissionsFromRoles(MeBody(c.auth, shape)) IN
    /\ c \in InFlight("refreshUser")
    /\ calls' = Receive(c)
    /\ IF enriched.threw THEN
          /\ clearAuth
          /\ last' = Ev("refreshUser", "settle", "resolved", None, c.key,
                        NoRequest, "2xx", VoidValue, <<>>)
       ELSE
          /\ tokenCache' = MapSet(tokenCache, cacheKey(c.key),
                                  [data |-> enriched.data, timestamp |-> now])
          /\ user' = enriched.data.user
          /\ last' = Ev("refreshUser", "settle", "resolved", None, c.key,
                        NoRequest, "2xx", VoidValue, <<>>)
          /\ UNCHANGED <<providerToken, token, storage>>
    /\ isLoading' = isLoading
    /\ stale' = Rerender(~enriched.threw)
    /\ UNCHANGED <<config, now, started, route, hook, pureVars>>

\* refreshUser after its await, transport error: console.error, clearAuth().
refreshUserFail(c, err) ==
    /\ c \in InFlight("refreshUser")
    /\ calls' = Receive(c)
    /\ clearAuth
    /\ last' = Ev("refreshUser", "settle", "resolved", None, c.key, NoRequest,
                  "error", VoidValue, ResponseInterceptor(err))
    /\ isLoading' = isLoading
    /\ stale' = Rerender(FALSE)
    /\ UNCHANGED <<config, now, started, route, hook, pureVars>>

\* The provider's login up to the await inside client.login:
\* setIsLoading(true), POST /auth/login.
ProviderLoginStart(limit) ==
    /\ started
    /\ CanSendWithin(limit)
    /\ isLoading' = TRUE
    /\ calls' = Send(Request("IAMProvider.login", "/auth/login", None, None))
    /\ last' = Ev("IAMProvider.login", "call", "pending", None, None,
                  Issued("/auth/login", RequestInterceptor(None)), "none",
                  NoValue, <<>>)
    /\ UNCHANGED <<user, providerToken>>
    /\ stale' = Rerender(FALSE)
    /\ UNCHANGED <<config, token, tokenCache, now, storage, started, route, hook,
                   pureVars>>

ProviderLoginCall == ProviderLoginStart(MaxCalls)

\* A catch that re-raises without clearAuth().
ProviderLoginCatchKeeps(clientToken) ==
    /\ token' = clientToken
    /\ UNCHANGED <<user, providerToken, tokenCache, storage>>

\* The catch of the provider's login, reached with clientToken as the token
\* client.login left on the client: clearAuth(); throw error.
ProviderLoginCatch(clientToken) == clearAuth

\* The provider's login after the await, 2xx: client.login stores the
\* access_token and reconciles the permissions; then setToken, setUser and
\* localStorage.setItem. An exception of the reconciliation rejects
\* client.login with the token already stored and takes the provider's catch.
ProviderLoginOk(c, accessToken, shape) ==
    LET body == LoginBody(accessToken, shape)
        perms == extractPermissionsFromLoginResponse(body)
    IN
    /\ c \in InFlight("IAMProvider.login")
    /\ calls' = Receive(c)
    /\ IF perms.threw THEN
          /\ ProviderLoginCatch(body.access_token)
          /\ last' = Ev("IAMProvider.login", "settle", "rejected", None, None,
                        NoRequest, "2xx",
                        ErrorValue(handleError(TypeError, <<"Login failed">>, FALSE)),
                        <<>>)
       ELSE
          /\ token' = body.access_token
          /\ providerToken' = body.access_token
          /\ user' = body.user
          /\ storage' = body.access_token
          /\ last' = Ev("IAMProvider.login", "settle", "resolved", None, None,
                        NoRequest, "2xx",
                        [kind |-> "login",
                         response |-> [body EXCEPT !.permissions = List(perms.set)]],
                        <<>>)
          /\ UNCHANGED tokenCache
    /\ isLoading' = FALSE
    /\ stale' = Rerender(~perms.threw)
    /\ UNCHANGED <<config, now, started, route, hook, pureVars>>

ProviderLoginFail(c, err) ==
    /\ c \in InFlight("IAMProvider.login")
    /\ calls' = Receive(c)
    /\ ProviderLoginCatch(token)
    /\ last' = Ev("IAMProvider.login", "settle", "rejected", None, None,
                  NoRequest, "error",
                  ErrorValue(handleError(err, <<"Login failed">>, FALSE)),
                  ResponseInterceptor(err))
    /\ isLoading' = FALSE
    /\ stale' = Rerender(FALSE)
    /\ UNCHANGED <<config, now, started, route, hook, pureVars>>

\* The provider's logout up to the await inside client.logout(token); without
\* a reactive token the finally runs at once.
ProviderLogoutStart(limit) ==
    /\ started
    /\ IF providerToken # None THEN
          /\ CanSendWithin(limit)
          /\ calls' = Send(Request("IAMProvider.logout", "/auth/logout", None, None))
          /\ last' = Ev("IAMProvider.logout", "call", "pending", providerToken,
                        None,
                        Issued("/auth/logout",
                               RequestInterceptor(OptionalHeader(providerToken))),
                        "none", NoValue, <<>>)
          /\ UNCHANGED <<user, providerToken, token, tokenCache, storage>>
       ELSE
          /\ clearAuth
          /\ calls' = calls
          /\ last' = Ev("IAMProvider.logout", "sync", "resolved", None, None,
                        NoRequest, "none", VoidValue, <<>>)
    /\ isLoading' = isLoading
    /\ stale' = Rerender(FALSE)
    /\ UNCHANGED <<config, now, started, route, hook, pureVars>>

ProviderLogoutCall == ProviderLogoutStart(MaxCalls)

\* A finally that clears the reactive state only.
ProviderLogoutFinallyKeepsStorage == clearAuthKeepsStorage

\* The finally of the provider's logout: clearAuth().
ProviderLogoutFinally == clearAuth

\* The provider's logout after the await: client.logout cleared the client's
\* token and cache in its try or in its catch and did not reject.
ProviderLogoutOk(c) ==
    /\ c \in InFlight("IAMProvider.logout")
    /\ calls' = Receive(c)
    /\ ProviderLogoutFinally
    /\ last' = Ev("IAMProvider.logout", "settle", "resolved", None, None,
                  NoRequest, "2xx", VoidValue, <<>>)
    /\ isLoading' = isLoading
    /\ stale' = Rerender(FALSE)
    /\ UNCHANGED <<config, now, started, route, hook, pureVars>>

ProviderLogoutFail(c, err) ==
    /\ c \in InFlight("IAMProvider.logout")
    /\ calls' = Receive(c)
    /\ ProviderLogoutFinally
    /\ last' = Ev("IAMProvider.logout", "settle", "resolved", None, None,
                  NoRequest, "error", VoidValue, ResponseInterceptor(err))
    /\ isLoading' = isLoading
    /\ stale' = Rerender(FALSE)
    /\ UNCHANGED <<config, now, started, route, hook, pureVars>>

NextProvider ==
    \/ MountEffect
    \/ \E c \in BagToSet(calls), s \in MeShapes : verifyAndLoadUserOk(c, s)
    \/ \E c \in BagToSet(calls), e \in TransportErrors : verifyAndLoadUserFail(c, e)
    \/ refreshUserCall
    \/ \E c \in BagToSet(calls), s \in MeShapes : refreshUserOk(c, s)
    \/ \E c \in BagToSet(calls), e \in TransportErrors : refreshUserFail(c, e)
    \/ ProviderLoginCall
    \/ \E c \in BagToSet(calls), t \in Tokens, s \in Shapes : ProviderLoginOk(c, t, s)
    \/ \E c \in BagToSet(calls), e \in TransportErrors : ProviderLoginFail(c, e)
    \/ ProviderLogoutCall
    \/ \E c \in BagToSet(calls) : ProviderLogoutOk(c)
    \/ \E c \in BagToSet(calls), e \in TransportErrors : ProviderLogoutFail(c, e)
    \/ \E d \in ClockSteps : Tick(d)

SpecProvider == InitProvider /\ [][NextProvider]_vars

\* React runs the mount effect after the first commit, and the timeout of
\* the client's axios instance (config.timeout, 10000 ms by default) fails
\* every request that has not settled by then: a request in flight cannot
\* stay in flight forever.
SpecProviderLive ==
    /\ SpecProvider
    /\ WF_vars(MountEffect)
    /\ WF_vars(\E c \in BagToSet(calls), e \in TransportErrors :
                  verifyAndLoadUserFail(c, e))

\* ---------------------------------------- a login that races a verification
\* The binding with a login started while the verification of the persisted
\* token, or a refreshUser, is in flight.
NextSessionRace ==
    \/ MountEffect
    \/ \E c \in BagToSet(calls), s \in MeShapes : verifyAndLoadUserOk(c, s)
    \/ \E c \in BagToSet(calls), e \in TransportErrors : verifyAndLoadUserFail(c, e)
    \/ refreshUserStart(MaxRacing)
    \/ \E c \in BagToSet(calls), s \in MeShapes : refreshUserOk(c, s)
    \/ \E c \in BagToSet(calls), e \in TransportErrors : refreshUserFail(c, e)
    \/ ProviderLoginStart(MaxRacing)
    \/ \E c \in BagToSet(calls), t \in Tokens, s \in Shapes : ProviderLoginOk(c, t, s)
    \/ \E c \in BagToSet(calls), e \in TransportErrors : ProviderLoginFail(c, e)
    \/ \E d \in ClockSteps : Tick(d)

SpecSessionRace == InitProvider /\ [][NextSessionRace]_vars

\* ------------------------------------------------------------ the route guard
\* ProtectedRoute (src/unnamed/part_008, lines 12-59) under an IAMProvider.
\* A step of the component is one render (the function body, which computes
\* what is shown from the state as it is) followed by its effect when a
\* dependency changed; the continuation of checkAccess after its await is a
\* step of its own.

\* The values of the props requiredPermission and requiredRole.
RequiredPermissions == {None, "admin.access"}
RequiredRoles == {None, "manager"}

\* The inputs of an access decision.
Inputs(auth, perm, role) ==
    [isAuthenticated |-> auth, requiredPermission |-> perm, requiredRole |-> role]
\* No decision was taken yet, or the decision in place was taken for inputs
\* that have been replaced since.
NoInputs ==
    [isAuthenticated |-> FALSE, requiredPermission |-> "-", requiredRole |-> "-"]

\* isAuthenticated: !!user
isAuthenticated == user # NoUser

\* if (isLoading || hasAccess === null) fallback; if (!hasAccess) redirect
\* (window.location.href = redirectTo); else children.
RouteView(loading, hasAccess) ==
    IF loading \/ hasAccess = None THEN "fallback"
    ELSE IF hasAccess = "false" THEN "redirect"
    ELSE "children"

\* A checkAccess that asks for the role before the permission.
CheckAccessRoleFirst(perm, role) ==
    IF ~isAuthenticated THEN [decided |-> "false", path |-> None]
    ELSE IF role # None THEN
        IF providerToken = None THEN [decided |-> "false", path |-> None]
        ELSE [decided |-> None, path |-> "/auth/check-role"]
    ELSE IF perm # None THEN
        IF providerToken = None THEN [decided |-> "false", path |-> None]
        ELSE [decided |-> None, path |-> "/auth/check-permission"]
    ELSE [decided |-> "true", path |-> None]

\* The synchronous part of checkAccess for the inputs of this render: the
\* decision it takes without a request ("false", "true"), or the path of the
\* check it awaits. The provider's hasPermission / hasRole answer false
\* without a request when there is no reactive token.
CheckAccess(perm, role) ==
    IF ~isAuthenticated THEN [decided |-> "false", path |-> None]
    ELSE IF perm # None THEN
        IF providerToken = None THEN [decided |-> "false", path |-> None]
        ELSE [decided |-> None, path |-> "/auth/check-permission"]
    ELSE IF role # None THEN
        IF providerToken = None THEN [decided |-> "false", path |-> None]
        ELSE [decided |-> None, path |-> "/auth/check-role"]
    ELSE [decided |-> "true", path |-> None]

\* The checks of earlier effect runs still in flight: their continuations
\* will run, for inputs that are no longer the current ones.
Superseded(c) ==
    IF c.op = "checkAccess" THEN [c EXCEPT !.key = "superseded"] ELSE c
Supersede(bag, same) == IF same THEN bag ELSE BagOfAll(Superseded, bag)

\* The effect: checkAccess() up to its first await or to its return. The
\* record of the route keeps, next to the component's state (hasAccess) and
\* props, what the render showed (view), the inputs of that render
\* (renderedFor), the inputs the value of hasAccess it read had been decided
\* for (shownFor), the inputs of the latest effect run (checkingFor) and the
\* inputs the current value of hasAccess was decided for (decidedFor).
RouteEffect(perm, role, view) ==
    LET inputs == Inputs(isAuthenticated, perm, role)
        same == route.mounted /\ route.checkingFor = inputs
        check == CheckAccess(perm, role)
    IN
    IF check.path = None THEN
        /\ route' = [mounted |-> TRUE, requiredPermission |-> perm,
                     requiredRole |-> role, hasAccess |-> check.decided,
                     view |-> view, renderedFor |-> inputs,
                     shownFor |-> IF route.mounted THEN route.decidedFor
                                  ELSE NoInputs,
                     checkingFor |-> inputs, decidedFor |-> inputs,
                     dirty |-> (~route.mounted \/ route.hasAccess # check.decided)]
        /\ calls' = Supersede(calls, same)
        /\ last' = Ev("checkAccess", "sync", "resolved", None, None, NoRequest,
                      "none", [kind |-> "decision", hasAccess |-> check.decided],
                      <<>>)
    ELSE
        /\ CanSend
        /\ route' = [mounted |-> TRUE, requiredPermission |-> perm,
                     requiredRole |-> role,
                     hasAccess |-> IF route.mounted THEN route.hasAccess ELSE None,
                     view |-> view, renderedFor |-> inputs,
                     shownFor |-> IF route.mounted THEN route.decidedFor
                                  ELSE NoInputs,
                     checkingFor |-> inputs,
                     decidedFor |-> IF route.mounted THEN route.decidedFor
                                    ELSE NoInputs,
                     dirty |-> FALSE]
        /\ calls' = Supersede(calls, same)
                    (+) SetToBag({Request("checkAccess", check.path, "current", None)})
        /\ last' = Ev("checkAccess", "call", "pending", providerToken, None,
                      Issued(check.path,
                             RequestInterceptor(OptionalHeader(providerToken))),
                      "none", NoValue, <<>>)

\* The first render (hasAccess is null: the fallback) and the first effect.
RouteMount(perm, role) ==
    /\ ~route.mounted
    /\ RouteEffect(perm, role, RouteView(isLoading, None))
    /\ stale' = FALSE
    /\ UNCHANGED <<config, token, tokenCache, now, user, providerToken, isLoading,
                   storage, started, hook, pureVars>>

\* A later render: after the provider re-rendered (new context value, new
\* hasPermission / hasRole functions), after the parent passed new props, or
\* after the component's own setHasAccess. The effect runs again in the first
\* two cases.
RouteRender(perm, role) ==
    LET view == RouteView(isLoading, route.hasAccess)
        rerun == stale \/ perm # route.requiredPermission
                       \/ role # route.requiredRole
    IN
    /\ route.mounted
    /\ rerun \/ route.dirty
    /\ IF rerun THEN RouteEffect(perm, role, view)
       ELSE /\ route' = [route EXCEPT !.view = view, !.dirty = FALSE,
                               !.shownFor = route.decidedFor,
                               !.renderedFor = Inputs(isAuthenticated, perm, role)]
            /\ last' = Ev("ProtectedRoute", "sync", "returned", None, None,
                          NoRequest, "none", NoValue, <<>>)
            /\ calls' = calls
    /\ stale' = FALSE
    /\ UNCHANGED <<config, token, tokenCache, now, user, providerToken, isLoading,
                   storage, started, hook, pureVars>>

\* checkAccess after its await: setHasAccess(result), whichever effect run
\* the check belongs to. The client method resolves to false on an error.
RouteCheckSettle(c, resp, answer, cb) ==
    /\ c \in InFlight("checkAccess")
    /\ calls' = Receive(c)
    /\ route' = [route EXCEPT
                    !.hasAccess = answer,
                    !.decidedFor = IF c.key = "current" THEN route.checkingFor
                                   ELSE NoInputs,
                    !.dirty = route.dirty \/ route.hasAccess # answer]
    /\ last' = Ev("checkAccess", "settle", "resolved", None, c.key,
                  Issued(c.path, None), resp,
                  [kind |-> "decision", hasAccess |-> answer], cb)
    /\ UNCHANGED <<config, token, tokenCache, now, user, providerToken, isLoading,
                   storage, started, stale, hook, pureVars>>

RouteCheckOk(c, answer) ==
    RouteCheckSettle(c, "2xx", IF answer THEN "true" ELSE "false", <<>>)
RouteCheckFail(c, err) ==
    RouteCheckSettle(c, "error", "false", ResponseInterceptor(err))

NextGuard ==
    \/ MountEffect
    \/ \E c \in BagToSet(calls), s \in MeShapes : verifyAndLoadUserOk(c, s)
    \/ \E c \in BagToSet(calls), e \in TransportErrors : verifyAndLoadUserFail(c, e)
    \/ ProviderLoginCall
    \/ \E c \in BagToSet(calls), t \in Tokens, s \in Shapes : ProviderLoginOk(c, t, s)
    \/ \E c \in BagToSet(calls), e \in TransportErrors : ProviderLoginFail(c, e)
    \/ ProviderLogoutCall
    \/ \E c \in BagToSet(calls) : ProviderLogoutOk(c)
    \/ \E c \in BagToSet(calls), e \in TransportErrors : ProviderLogoutFail(c, e)
    \/ \E p \in RequiredPermissions, r \in RequiredRoles : RouteMount(p, r)
    \/ \E p \in RequiredPermissions, r \in RequiredRoles : RouteRender(p, r)
    \/ \E c \in BagToSet(calls), b \in BOOLEAN : RouteCheckOk(c, b)
    \/ \E c \in BagToSet(calls), e \in TransportErrors : RouteCheckFail(c, e)

SpecGuard == InitProvider /\ [][NextGuard]_vars

\* A logout started while a check of the route is in flight.
NextGuardRace ==
    \/ MountEffect
    \/ \E c \in BagToSet(calls), s \in MeShapes : verifyAndLoadUserOk(c, s)
    \/ \E c \in BagToSet(calls), e \in TransportErrors : verifyAndLoadUserFail(c, e)
    \/ ProviderLogoutStart(MaxRacing)
    \/ \E c \in BagToSet(calls) : ProviderLogoutOk(c)
    \/ \E c \in BagToSet(calls), e \in TransportErrors : ProviderLogoutFail(c, e)
    \/ \E p \in RequiredPermissions, r \in RequiredRoles : RouteMount(p, r)
    \/ \E p \in RequiredPermissions, r \in RequiredRoles : RouteRender(p, r)
    \/ \E c \in BagToSet(calls), b \in BOOLEAN : RouteCheckOk(c, b)
    \/ \E c \in BagToSet(calls), e \in TransportErrors : RouteCheckFail(c, e)

SpecGuardRace == InitProvider /\ [][NextGuardRace]_vars

\* ------------------------------------------------------------------ the hooks
\* usePermission, useRole, useUsers, useUser, useDepartments, usePositions
\* (src/src/react/hooks.ts) in one component under an IAMProvider. Each run
\* of a hook's effect has its own flag 'mounted', which its cleanup sets to
\* false; a request in flight carries "current" while the flag of the run
\* that issued it is true and "cleaned" afterwards.
CheckHooks == {"usePermission", "useRole"}
FetchHooks == {"useUsers", "useUser", "useDepartments", "usePositions"}
HookKinds == CheckHooks \cup FetchHooks

\* The argument of the hook: a permission or role name, a user id (or null),
\* the query parameters.
HookInputs(kind) ==
    IF kind \in CheckHooks THEN {"a", "b"}
    ELSE IF kind = "useUser" THEN {None, "7"}
    ELSE {"page=1", "page=2"}

\* The endpoint the client method behind the hook requests.
HookPath(kind, inp) ==
    CASE kind = "usePermission" -> "/auth/check-permission"
      [] kind = "useRole" -> "/auth/check-role"
      [] kind = "useUsers" -> "/users"
      [] kind = "useUser" -> "/users/:id"
      [] kind = "useDepartments" -> "/departments"
      [] kind = "usePositions" -> "/positions"

\* The state of the hook: hasAccess for the check hooks; data, loading and
\* error for the fetch hooks.
HookState(h) == <<h.hasAccess, h.data, h.loading, h.error>>

\* useState(false); useState(null); useState(true); useState(null)
FreshHook(kind, inp) ==
    [mounted |-> TRUE, kind |-> kind, inp |-> inp,
     hasAccess |-> FALSE, data |-> None, loading |-> kind \in FetchHooks,
     error |-> None,
     decidedFor |-> "-", returned |-> FALSE, returnedFor |-> "-",
     dirty |-> FALSE,
     prev |-> <<FALSE, None, kind \in FetchHooks, None>>]

\* return () => { mounted = false; }
Cleaned(c) == IF c.op \in HookKinds THEN [c EXCEPT !.key = "cleaned"] ELSE c
Cleanup(bag) == BagOfAll(Cleaned, bag)

\* A continuation that writes whether or not its run was cleaned up.
HookGuardAlways(flag) == TRUE

\* if (mounted) { ... }
HookGuard(flag) == flag

\* The effect of the hook for the state h of this render: the cleanup of the
\* previous run, then the code of the new run up to its await.
HookEffect(h) ==
    IF h.kind \in CheckHooks /\ providerToken = None THEN
        \* the provider's hasPermission / hasRole: if (!token) return false
        /\ hook' = [h EXCEPT !.hasAccess = FALSE, !.decidedFor = h.inp,
                             !.dirty = h.hasAccess]
        /\ calls' = Cleanup(calls)
        /\ last' = Ev(h.kind, "sync", "resolved", h.inp, None, NoRequest, "none",
                      BoolValue(FALSE), <<>>)
    ELSE IF h.kind = "useUser" /\ h.inp = None THEN
        \* if (!userId) { setLoading(false); return; }
        /\ hook' = [h EXCEPT !.loading = FALSE, !.dirty = h.loading]
        /\ calls' = Cleanup(calls)
        /\ last' = Ev(h.kind, "sync", "returned", h.inp, None, NoRequest, "none",
                      NoValue, <<>>)
    ELSE
        /\ CanSend
        /\ hook' = IF h.kind \in FetchHooks
                   THEN [h EXCEPT !.loading = TRUE, !.dirty = ~h.loading]
                   ELSE [h EXCEPT !.dirty = FALSE]
        /\ calls' = Cleanup(calls)
                    (+) SetToBag({Request(h.kind, HookPath(h.kind, h.inp),
                                          "current", None)})
        /\ last' = Ev(h.kind, "call", "pending", h.inp, None,
                      Issued(HookPath(h.kind, h.inp),
                             RequestInterceptor(
                                 IF h.kind \in CheckHooks
                                 THEN OptionalHeader(providerToken) ELSE None)),
                      "none", NoValue, <<>>)

\* The component mounts: first render (the initial state is returned) and
\* first effect.
HookMount(kind, inp) ==
    /\ ~hook.mounted
    /\ started
    /\ HookEffect(FreshHook(kind, inp))
    /\ stale' = FALSE
    /\ UNCHANGED <<config, token, tokenCache, now, user, providerToken, isLoading,
                   storage, started, route, pureVars>>

\* A later render, with the argument inp: the hook returns its state as it
\* is; the effect runs again when a dependency changed (the argument; for
\* the check hooks also the provider's function, new at every render of the
\* provider).
HookRender(inp) ==
    LET rerun == \/ inp # hook.inp
                 \/ (stale /\ hook.kind \in CheckHooks)
        h == [hook EXCEPT !.inp = inp, !.returned = hook.hasAccess,
                          !.returnedFor = hook.decidedFor]
    IN
    /\ hook.mounted
    /\ inp \in HookInputs(hook.kind)
    /\ stale \/ inp # hook.inp \/ hook.dirty
    /\ IF rerun THEN HookEffect(h)
       ELSE /\ hook' = [h EXCEPT !.dirty = FALSE]
            /\ calls' = calls
            /\ last' = Ev(hook.kind, "sync", "returned", inp, None, NoRequest,
                          "none", NoValue, <<>>)
    /\ stale' = FALSE
    /\ UNCHANGED <<config, token, tokenCache, now, user, providerToken, isLoading,
                   storage, started, route, pureVars>>

\* The component unmounts: the cleanup of the last run; the request stays
\* with the transport.
HookUnmount ==
    /\ hook.mounted
    /\ hook' = [hook EXCEPT !.mounted = FALSE]
    /\ calls' = Cleanup(calls)
    /\ last' = Ev("unmount", "sync", "returned", None, None, NoRequest, "none",
                  [kind |-> "inflight", before |-> BagCardinality(calls)], <<>>)
    /\ UNCHANGED <<config, token, tokenCache, now, user, providerToken, isLoading,
                   storage, started, stale, route, pureVars>>

\* The continuation of a run after its await. ok: the client method
\* resolved (with answer, for a check); otherwise the request failed: the
\* check methods resolve to false, the fetch methods reject.
HookSettle(c, ok, answer, cb) ==
    LET flag == HookGuard(c.key = "current")
        result == ok /\ answer
        written ==
            IF ~flag THEN hook
            ELSE IF c.op \in CheckHooks THEN
                [hook EXCEPT !.hasAccess = result, !.decidedFor = hook.inp]
            ELSE IF ok THEN
                [hook EXCEPT !.data = c.path, !.error = None, !.loading = FALSE]
            ELSE [hook EXCEPT !.error = "error", !.loading = FALSE]
    IN
    /\ c.op \in HookKinds
    /\ c \in BagToSet(calls)
    /\ calls' = Receive(c)
    /\ hook' = [written EXCEPT !.prev = HookState(hook),
                               !.dirty = hook.dirty
                                         \/ HookState(written) # HookState(hook)]
    /\ last' = Ev(c.op, "settle",
                  IF c.op \in FetchHooks /\ ~ok THEN "rejected" ELSE "resolved",
                  None, c.key, Issued(c.path, None),
                  IF ok THEN "2xx" ELSE "error",
                  IF c.op \in CheckHooks THEN BoolValue(result) ELSE NoValue, cb)
    /\ UNCHANGED <<config, token, tokenCache, now, user, providerToken, isLoading,
                   storage, started, stale, route, pureVars>>

HookSettleOk(c, answer) == HookSettle(c, TRUE, answer, <<>>)
HookSettleFail(c, err) == HookSettle(c, FALSE, FALSE, ResponseInterceptor(err))

NextHooks ==
    \/ MountEffect
    \/ \E c \in BagToSet(calls), s \in MeShapes : verifyAndLoadUserOk(c, s)
    \/ \E c \in BagToSet(calls), e \in TransportErrors : verifyAndLoadUserFail(c, e)
    \/ ProviderLogoutCall
    \/ \E c \in BagToSet(calls) : ProviderLogoutOk(c)
    \/ \E c \in BagToSet(calls), e \in TransportErrors : ProviderLogoutFail(c, e)
    \/ \E k \in HookKinds : \E i \in HookInputs(k) : HookMount(k, i)
    \/ \E i \in {None, "a", "b", "7", "page=1", "page=2"} : HookRender(i)
    \/ HookUnmount
    \/ \E c \in BagToSet(calls), b \in BOOLEAN : HookSettleOk(c, b)
    \/ \E c \in BagToSet(calls), e \in TransportErrors : HookSettleFail(c, e)

SpecHooks == InitProvider /\ [][NextHooks]_vars

\* ------------------------------------- the reconciler applied on its own
\* All sequences over S of length at most n.
SeqsUpTo(S, n) == UNION {[1..k -> S] : k \in 0..n}

\* The permission names of a flat list, and the permissions inside a role.
FlatNames == {"a", "b"}
RolePerms == {PStr("a"), PObj("b")}

\* An optional array: undefined, or an array over S of bounded length.
OptionalList(S, n) == {Absent} \cup {List(q) : q \in SeqsUpTo(S, n)}

\* Role[]: each role with an optional permissions array.
RoleValues == {[permissions |-> p] : p \in OptionalList(RolePerms, MaxPerms)}

\* The responses the reconciler is given: LoginResponse / TokenVerificationResponse.
Responses ==
    {[user |-> [id |-> "alice", roles |-> r], permissions |-> f] :
        r \in OptionalList(RoleValues, MaxRoles),
        f \in OptionalList(FlatNames, MaxFlat)}

InitReconcile ==
    /\ config = [onTokenRefresh |-> FALSE, onAuthError |-> FALSE]
    /\ token = None
    /\ tokenCache = EmptyMap
    /\ now = 0
    /\ calls = EmptyBag
    /\ last = SyncEv("new", None)
    /\ NoReact
    /\ input \in Responses
    /\ output = NoValue

\* this.extractPermissionsFromLoginResponse(response.data): the function reads
\* its argument and builds a new array; it assigns to nothing reachable from
\* the argument.
ApplyExtract ==
    /\ output = NoValue
    /\ LET r == extractPermissionsFromLoginResponse(input) IN
       output' = [fn |-> "extractPermissionsFromLoginResponse",
                  given |-> input, threw |-> r.threw,
                  permissions |-> List(r.set), user |-> input.user]
    /\ input' = input
    /\ UNCHANGED <<config, token, tokenCache, now, calls, last, reactVars>>

\* this.enrichPermissionsFromRoles(response.data): returns { ...data,
\* permissions: Array.from(permissions) }, a new object.
ApplyEnrich ==
    /\ output = NoValue
    /\ LET r == enrichPermissionsFromRoles(input) IN
       output' = [fn |-> "enrichPermissionsFromRoles",
                  given |-> input, threw |-> r.threw,
                  permissions |-> r.data.permissions, user |-> r.data.user]
    /\ input' = input
    /\ UNCHANGED <<config, token, tokenCache, now, calls, last, reactVars>>

NextReconcile ==
    \/ ApplyExtract
    \/ ApplyEnrich

SpecReconcile == InitReconcile /\ [][NextReconcile]_vars

\* ------------------------------- the error normalizer applied on its own
\* The fallback text the calling method passes.
Fallback == <<"Phone login failed">>
\* The message strings the service puts into a field-error map.
FieldMsgs == {"The phone field is required.", "Phone login failed"}
\* The keys of the field-error map, in the order Object.values yields them.
FieldNames == <<"phone", "otp", "password">>

\* The value of one field: an array of messages or a single message string.
FieldValues ==
    {[isArray |-> TRUE, msgs |-> q] : q \in SeqsUpTo(FieldMsgs, MaxMsgs)}
    \cup {[isArray |-> FALSE, msgs |-> <<m>>] : m \in FieldMsgs}

\* errorData.errors: absent, or an object with up to MaxFields fields.
ErrorMaps ==
    {Absent} \cup
    {List([i \in DOMAIN q |-> [field |-> FieldNames[i], isArray |-> q[i].isArray,
                               msgs |-> q[i].msgs]]) :
        q \in SeqsUpTo(FieldValues, MaxFields)}

\* The errors handleError is given: a response with a body, a transport
\* error without a response, and an exception that is not an axios error.
ErrorInputs ==
    {[isAxios |-> TRUE, hasData |-> TRUE, status |-> 422,
      data |-> [message |-> m, errors |-> e],
      message |-> "Request failed with status code 422"] :
        m \in {None, "The given data was invalid."}, e \in ErrorMaps}
    \cup {NetworkError, TypeError}

InitError ==
    /\ config = [onTokenRefresh |-> FALSE, onAuthError |-> FALSE]
    /\ token = None
    /\ tokenCache = EmptyMap
    /\ now = 0
    /\ calls = EmptyBag
    /\ last = SyncEv("new", None)
    /\ NoReact
    /\ input \in {[error |-> e, message |-> Fallback, preferDetailedMessage |-> p] :
                     e \in ErrorInputs, p \in BOOLEAN}
    /\ output = NoValue

\* throw this.handleError(error, message, preferDetailedMessage)
ApplyHandleError ==
    /\ output = NoValue
    /\ output' = [fn |-> "handleError", given |-> input,
                  error |-> handleError(input.error, input.message,
                                        input.preferDetailedMessage)]
    /\ input' = input
    /\ UNCHANGED <<config, token, tokenCache, now, calls, last, reactVars>>

NextError == ApplyHandleError

SpecError == InitError /\ [][NextError]_vars

\* ------------------------------------------------------------------ claims
HeaderMethods ==
    {"verifyToken", "hasPermission", "hasRole", "refreshToken", "logout",
     "logoutAll"}

\* C1: a verifyToken(T) call that finds an entry for T stored at t0 returns
\* the stored result without a request when now - t0 < 60000, and issues a
\* GET /auth/me request when now - t0 >= 60000.
C1_CacheTTL ==
    (/\ last.op = "verifyToken"
     /\ last.phase = "call"
     /\ last.key # None
     /\ cacheKey(last.key) \in DOMAIN tokenCache)
    => LET entry == tokenCache[cacheKey(last.key)] IN
       /\ now - entry.timestamp < 60000
          => /\ last.outcome = "resolved"
             /\ last.req = NoRequest
             /\ last.value = [kind |-> "data", data |-> entry.data]
       /\ now - entry.timestamp >= 60000
          => /\ last.outcome = "pending"
             /\ last.req.path = "/auth/me"

\* C1 witness: a hit on the last millisecond of the entry's life.
C1_Witness ==
    /\ last.op = "verifyToken"
    /\ last.phase = "call"
    /\ last.outcome = "resolved"
    /\ now - tokenCache[cacheKey(last.key)].timestamp = 59999

\* The other side of the boundary: a request at exactly 60000 ms.
C1_ExpiredReached ==
    /\ last.op = "verifyToken"
    /\ last.phase = "call"
    /\ last.outcome = "pending"
    /\ cacheKey(last.key) \in DOMAIN tokenCache
    /\ now - tokenCache[cacheKey(last.key)].timestamp = 60000

\* C2: hasPermission and hasRole never reject; when the request fails they
\* resolve to false; their settling leaves token and cache as they were.
C2_ChecksFailClosed ==
    last.op \in {"hasPermission", "hasRole"}
    => /\ last.outcome # "rejected"
       /\ last.phase = "settle"
          => /\ last.outcome = "resolved"
             /\ token = last.was.token
             /\ tokenCache = last.was.cache
       /\ last.resp = "error" => last.value = [kind |-> "bool", bool |-> FALSE]

\* C2 witness: a failed permission check settled with a token and a cache
\* entry in place.
C2_Witness ==
    /\ last.op = "hasPermission"
    /\ last.resp = "error"
    /\ last.outcome = "resolved"
    /\ token # None
    /\ tokenCache # EmptyMap

\* C3: a request of a method called with an explicit token T carries
\* Authorization 'Bearer T'; without the argument it carries the stored token.
C3_ExplicitTokenUsed ==
    (/\ last.phase = "call"
     /\ last.op \in HeaderMethods
     /\ last.req.path # None)
    => last.req.auth = (IF last.arg # None THEN last.arg ELSE token)

\* C4: when login rejects, token and cache are what they were before.
C4_LoginFailureKeepsToken ==
    (last.op = "login" /\ last.outcome = "rejected")
    => (token = last.was.token /\ tokenCache = last.was.cache)

\* C4 reached: login rejected although the token was replaced.
C4_Reached ==
    /\ last.op = "login"
    /\ last.outcome = "rejected"
    /\ token # last.was.token

NoDuplicates(list) == \A i, j \in DOMAIN list : list[i] = list[j] => i = j

\* The permission names nested in the roles of a response.
RoleNames(roles) ==
    UNION {{p.name : p \in Range(r.permissions.items)} : r \in Range(roles.items)}

\* What a resolved login or loginWithPhone leaves: the current token is the
\* access_token of the response and the returned permissions are the flat
\* list followed by the names nested in user.roles, without duplicates.
LoginResolved ==
    (last.op \in {"login", "loginWithPhone"} /\ last.outcome = "resolved")
    => LET response == last.value.response IN
       /\ token = response.access_token
       /\ response.permissions.tag = "list"
       /\ NoDuplicates(response.permissions.items)
       /\ RoleNames(response.user.roles) \subseteq Range(response.permissions.items)
       /\ response.user.roles = ShapeA.roles
          => response.permissions.items = <<"a", "b", "c">>
       /\ response.user.roles = ShapeB.roles
          => response.permissions.items = <<"forms.create">>

C6_ClearTokenClearsCache ==
    /\ last.op = "clearToken"
       => (token = None /\ DOMAIN tokenCache = {})
    /\ (/\ last.op = "verifyToken"
        /\ last.phase = "call"
        /\ last.key # None
        /\ cacheKey(last.key) \notin DOMAIN tokenCache)
       => (last.outcome = "pending" /\ last.req.path = "/auth/me")

\* C6 witness: clearToken ran with a token set and a result cached.
C6_Witness ==
    /\ last.op = "clearToken"
    /\ last.was.token # None
    /\ DOMAIN last.was.cache # {}
    /\ token = None
    /\ tokenCache = EmptyMap

C8_LogoutSilent ==
    last.op = "logout"
    => /\ last.outcome # "rejected"
       /\ last.phase = "settle"
          => (last.outcome = "resolved" /\ token = None /\ DOMAIN tokenCache = {})

\* C8 witness: a logout whose remote call failed, with a token and a cached
\* result before it settled.
C8_Witness ==
    /\ last.op = "logout"
    /\ last.phase = "settle"
    /\ last.resp = "error"
    /\ last.was.token # None
    /\ DOMAIN last.was.cache # {}

\* C9: when verifyToken for T rejects after its request, exactly the entry of
\* T is gone and every other entry is as before; a failed request raises the
\* normalized error.
C9_VerifyFailureInvalidates ==
    (last.op = "verifyToken" /\ last.phase = "settle")
    => /\ last.resp = "error"
          => /\ last.outcome = "rejected"
             /\ last.value.kind = "error"
             /\ \/ /\ last.value.error.statusCode = 401
                   /\ last.value.error.message = <<"Unauthenticated.">>
                \/ /\ last.value.error.statusCode = 0
                   /\ last.value.error.message =
                         <<"Token verification failed", ": ", "Network Error">>
       /\ last.outcome = "rejected"
          => /\ DOMAIN tokenCache = DOMAIN last.was.cache \ {cacheKey(last.key)}
             /\ \A k \in DOMAIN tokenCache : tokenCache[k] = last.was.cache[k]

\* C9 witness: a failed verification removed one of two entries.
C9_Witness ==
    /\ last.op = "verifyToken"
    /\ last.phase = "settle"
    /\ last.resp = "error"
    /\ DOMAIN last.was.cache = {cacheKey("T1"), cacheKey("T2")}
    /\ DOMAIN tokenCache = {cacheKey("T2")}

OnTokenRefreshCalls(cb) == SelectSeq(cb, LAMBDA c : c.name = "onTokenRefresh")

\* C10: a refresh response with a new access_token replaces the token and the
\* configured onTokenRefresh is invoked once, with the new token and after
\* the replacement; a failed refresh leaves the token, invokes nothing and
\* raises the normalized error.
C10_RefreshToken ==
    (last.op = "refreshToken" /\ last.phase = "settle")
    => /\ (last.resp = "2xx" /\ last.value.access_token # None)
          => /\ token = last.value.access_token
             /\ OnTokenRefreshCalls(last.cb) =
                   IF config.onTokenRefresh
                   THEN <<[name |-> "onTokenRefresh",
                           arg |-> last.value.access_token,
                           tokenAtCall |-> last.value.access_token]>>
                   ELSE <<>>
       /\ last.resp = "error"
          => /\ token = last.was.token
             /\ OnTokenRefreshCalls(last.cb) = <<>>
             /\ last.outcome = "rejected"
             /\ \/ /\ last.value.error.statusCode = 401
                   /\ last.value.error.message = <<"Unauthenticated.">>
                \/ /\ last.value.error.statusCode = 0
                   /\ last.value.error.message =
                         <<"Token refresh failed", ": ", "Network Error">>

\* C10 witness: a refresh replaced a different token and invoked the callback.
C10_Witness ==
    /\ last.op = "refreshToken"
    /\ last.outcome = "resolved"
    /\ last.cb # <<>>
    /\ last.was.token # None
    /\ token # last.was.token

\* C20: verifyToken resolves the effective token as the explicit argument if
\* given, else the current token; with neither it rejects with 'No token
\* provided', issues no request and leaves token and cache as they were.
C20_VerifyWithoutToken ==
    (last.op = "verifyToken" /\ last.phase = "call")
    => /\ last.key = (IF last.arg # None THEN last.arg ELSE last.was.token)
       /\ last.key = None
          => /\ last.outcome = "rejected"
             /\ last.value = ErrorValue([message |-> <<"No token provided">>,
                                         data |-> NoBody, statusCode |-> 0])
             /\ last.req = NoRequest
             /\ token = last.was.token
             /\ tokenCache = last.was.cache
       /\ last.key # None => last.value # ErrorValue(NoTokenError)

\* C20 witness: verifyToken() without argument on a client that has no token
\* but still holds a cached result.
C20_Witness ==
    /\ last.op = "verifyToken"
    /\ last.phase = "call"
    /\ last.arg = None
    /\ last.was.token = None
    /\ last.outcome = "rejected"
    /\ DOMAIN tokenCache # {}

\* C20, the other case reached: the argument wins over a different current token.
C20_ArgumentReached ==
    /\ last.op = "verifyToken"
    /\ last.phase = "call"
    /\ last.arg = "T2"
    /\ last.was.token = "T1"
    /\ last.key = "T2"

\* The role permission names of a response, in role order then list order.
RECURSIVE Flatten(_)
Flatten(seqs) == IF seqs = <<>> THEN <<>> ELSE Head(seqs) \o Flatten(Tail(seqs))

NamesInRoleOrder(roles) ==
    Flatten([i \in DOMAIN roles.items |->
                [j \in DOMAIN roles.items[i].permissions.items |->
                    roles.items[i].permissions.items[j].name]])

\* A list without its repetitions: each value where it first occurs.
FirstOccurrences(list) ==
    LET keep == {i \in DOMAIN list : \A j \in 1..(i - 1) : list[j] # list[i]}
        nth(k) == CHOOSE i \in keep : Cardinality({j \in keep : j < i}) = k - 1
    IN [k \in 1..Cardinality(keep) |-> list[nth(k)]]

\* C11: the reconciled list is the flat list followed by the role permission
\* names in role order, without repetitions and in order of first occurrence;
\* the function returns normally and its argument is as it was given.
C11_Reconciliation ==
    output # NoValue
    => /\ ~output.threw
       /\ output.permissions =
             List(FirstOccurrences(output.given.permissions.items
                                   \o NamesInRoleOrder(output.given.user.roles)))
       /\ output.user = output.given.user
       /\ input = output.given

\* C11 witness: a flat list with a repetition, a role without permissions and
\* a role that repeats a flat name in object form before adding a new name.
C11_Witness ==
    /\ output # NoValue
    /\ output.fn = "enrichPermissionsFromRoles"
    /\ output.given.permissions = List(<<"b", "b">>)
    /\ output.given.user.roles =
          List(<<[permissions |-> Absent],
                 [permissions |-> List(<<PObj("b"), PStr("a")>>)]>>)
    /\ output.permissions = List(<<"b", "a">>)

\* handleError was applied with the preference set to a body whose field-error
\* map has a first field with a non-empty message list.
DetailPreferred ==
    /\ output # NoValue
    /\ output.fn = "handleError"
    /\ output.given.preferDetailedMessage
    /\ output.given.error.isAxios
    /\ output.given.error.hasData
    /\ output.given.error.data.errors.tag = "list"
    /\ output.given.error.data.errors.items # <<>>
    /\ output.given.error.data.errors.items[1].isArray
    /\ output.given.error.data.errors.items[1].msgs # <<>>

\* C12: with preferDetailedMessage set and a first field with a non-empty
\* message list, the message of the error is that field's first message.
C12_DetailedMessagePreferred ==
    DetailPreferred
    => output.error.message = <<output.given.error.data.errors.items[1].msgs[1]>>

\* C12 reached: the first message reads like the fallback text, so the code
\* takes the message for unresolved and replaces it by the joined list.
C12_Reached ==
    /\ DetailPreferred
    /\ output.given.error.data.errors.items[1].msgs =
          <<"Phone login failed", "The phone field is required.">>
    /\ output.error.message =
          <<"Phone login failed", ", ", "The phone field is required.">>

\* C12, the rest: whenever the first message differs from the fallback text
\* the message of the error is the first field's first message.
C12_HoldsUnlessFallbackText ==
    (/\ DetailPreferred
     /\ <<output.given.error.data.errors.items[1].msgs[1]>> # output.given.message)
    => output.error.message = <<output.given.error.data.errors.items[1].msgs[1]>>

\* Everything clearAuth clears is cleared.
Cleared ==
    /\ user = NoUser
    /\ providerToken = None
    /\ token = None
    /\ storage = None

\* What the initialization of the provider does, step by step: the mount
\* effect sets a persisted token on the client and verifies it; a successful
\* verification populates the user, a failed one clears everything; the
\* loading flag is down after either and after a mount without a token.
C16_InitSteps ==
    /\ (last.op = "verifyAndLoadUser" /\ last.phase = "call")
       => /\ token = last.arg
          /\ providerToken = last.arg
          /\ storage = last.arg
          /\ last.req = Issued("/auth/me", last.arg)
    /\ last.op = "mount" => (storage = None /\ ~isLoading)
    /\ (last.op = "verifyAndLoadUser" /\ last.phase = "settle")
       => /\ ~isLoading
          /\ last.outcome = "resolved"
             => (user = last.value.data.user /\ user # NoUser)
          /\ last.outcome = "rejected" => Cleared

\* C16: initialization behaves as C16_InitSteps says at every step, and
\* isLoading eventually becomes false.
C16_Initialization == []C16_InitSteps /\ <>(isLoading = FALSE)

\* C16 witness: the verification of a persisted token failed and the
\* persisted token is gone.
C16_Witness ==
    /\ last.op = "verifyAndLoadUser"
    /\ last.phase = "settle"
    /\ last.resp = "error"
    /\ last.was.token = "T1"
    /\ Cleared
    /\ ~isLoading

\* C16, the other outcome reached: the user of the persisted token is loaded.
C16_LoadedReached ==
    /\ last.op = "verifyAndLoadUser"
    /\ last.outcome = "resolved"
    /\ user.id = "alice"
    /\ providerToken = "T1"
    /\ storage = "T1"

\* C17: when the provider's login resolves, reactive token, user and
\* persisted token are those of the response; when it rejects, everything is
\* cleared and the error is raised; isLoading is false once it settled.
C17_ProviderLogin ==
    (last.op = "IAMProvider.login" /\ last.phase = "settle")
    => /\ ~isLoading
       /\ last.outcome \in {"resolved", "rejected"}
       /\ last.outcome = "resolved"
          => /\ providerToken = last.value.response.access_token
             /\ user = last.value.response.user
             /\ storage = last.value.response.access_token
       /\ last.resp = "error" => last.outcome = "rejected"
       /\ last.outcome = "rejected"
          => (Cleared /\ last.value.kind = "error")

\* C17 witness: a login failed while a session existed, and the session is gone.
C17_Witness ==
    /\ last.op = "IAMProvider.login"
    /\ last.phase = "settle"
    /\ last.resp = "error"
    /\ last.was.token = "T1"
    /\ Cleared

\* C17, success reached: a login replaced the session of another token.
C17_SuccessReached ==
    /\ last.op = "IAMProvider.login"
    /\ last.outcome = "resolved"
    /\ last.was.token = "T1"
    /\ providerToken = "T2"
    /\ storage = "T2"
    /\ user.id = "bob"

\* C18: the provider's logout never rejects and once it settled everything
\* is cleared, whatever the remote outcome and also without a token.
C18_ProviderLogout ==
    last.op = "IAMProvider.logout"
    => /\ last.outcome # "rejected"
       /\ last.phase \in {"settle", "sync"}
          => (last.outcome = "resolved" /\ Cleared)

\* C18 witness: the remote logout failed and the local state is cleared.
C18_Witness ==
    /\ last.op = "IAMProvider.logout"
    /\ last.phase = "settle"
    /\ last.resp = "error"
    /\ last.was.token # None
    /\ Cleared

\* C18, without a token: logout settles at once, nothing is requested.
C18_NoTokenReached ==
    /\ last.op = "IAMProvider.logout"
    /\ last.phase = "sync"
    /\ last.req = NoRequest
    /\ Cleared

\* C13: checkAccess denies an unauthenticated user without any check call;
\* otherwise with requiredPermission set it takes the permission check (no
\* role check is issued), otherwise with requiredRole set the role check,
\* otherwise it allows; a check that settles sets the decision to its result.
C13_DecisionOrder ==
    /\ (last.op = "checkAccess" /\ last.phase \in {"sync", "call"})
       => LET i == route.checkingFor IN
          /\ i.isAuthenticated = isAuthenticated
          /\ ~i.isAuthenticated
             => (last.req = NoRequest /\ route.hasAccess = "false")
          /\ (i.isAuthenticated /\ i.requiredPermission # None)
             => \/ last.req.path = "/auth/check-permission"
                \/ /\ last.req = NoRequest
                   /\ providerToken = None
                   /\ route.hasAccess = "false"
          /\ (i.isAuthenticated /\ i.requiredPermission = None
                                /\ i.requiredRole # None)
             => \/ last.req.path = "/auth/check-role"
                \/ /\ last.req = NoRequest
                   /\ providerToken = None
                   /\ route.hasAccess = "false"
          /\ (i.isAuthenticated /\ i.requiredPermission = None
                                /\ i.requiredRole = None)
             => (last.req = NoRequest /\ route.hasAccess = "true")
    /\ (last.op = "checkAccess" /\ last.phase = "settle")
       => /\ route.hasAccess = last.value.hasAccess
          /\ last.resp = "error" => route.hasAccess = "false"

\* C13 witness: an unauthenticated user with requiredRole set is denied and
\* nothing was requested.
C13_Witness ==
    /\ last.op = "checkAccess"
    /\ last.phase = "sync"
    /\ route.requiredRole = "manager"
    /\ route.requiredPermission = None
    /\ ~isAuthenticated
    /\ route.hasAccess = "false"
    /\ calls = EmptyBag

\* C13, both requirements set: the permission check is the one issued.
C13_BothReached ==
    /\ last.op = "checkAccess"
    /\ last.phase = "call"
    /\ route.requiredRole = "manager"
    /\ route.requiredPermission = "admin.access"
    /\ last.req.path = "/auth/check-permission"

\* C14: a render shows the children or performs the redirect only when the
\* decision it reads was taken for the inputs of that render; while the
\* resolution for these inputs is pending it shows the fallback.
C14_PendingShowsFallback ==
    (route.mounted /\ route.view \in {"children", "redirect"})
    => route.shownFor = route.renderedFor

\* C14 reached: a page load with a valid persisted token. The route decided
\* 'denied' while the user was not loaded yet; the render after the
\* verification succeeded reads that decision and redirects an
\* authenticated user, before checkAccess has run for the new inputs.
C14_Reached ==
    /\ route.mounted
    /\ route.view = "redirect"
    /\ route.renderedFor.isAuthenticated
    /\ ~route.shownFor.isAuthenticated
    /\ storage = "T1"
    /\ providerToken = "T1"
    /\ user.id = "alice"

\* C14, the other side reached: the children stay rendered for a user who
\* is no longer authenticated.
C14_StaleChildrenReached ==
    /\ route.mounted
    /\ route.view = "children"
    /\ ~route.renderedFor.isAuthenticated
    /\ route.shownFor.isAuthenticated

\* C15: usePermission(p) and useRole(r) return false from the moment the
\* input is supplied, initially or after an input change, until the check
\* for that input resolves, and return true only after a check for the
\* current input resolved true: whenever a render of the hook returned
\* true, the value it returned was written by a check for the input of that
\* render. The code violates this: hasAccess is not reset when the input
\* changes.
C15_FalseUntilResolved ==
    (hook.mounted /\ hook.kind \in CheckHooks /\ hook.returned)
        => hook.returnedFor = hook.inp

\* The render with a new input whose check is still in flight returned the
\* true of the previous input.
C15_Reached ==
    /\ hook.mounted
    /\ hook.kind = "usePermission"
    /\ hook.inp = "b"
    /\ hook.returned
    /\ hook.returnedFor = "a"
    /\ \E c \in BagToSet(calls) : c.op = "usePermission" /\ c.key = "current"

\* On the first input the hook does return false until its check resolves.
C15_FirstInputPending ==
    /\ hook.mounted
    /\ hook.kind \in CheckHooks
    /\ hook.decidedFor = "-"
    /\ ~hook.returned
    /\ \E c \in BagToSet(calls) : c.op = hook.kind /\ c.key = "current"

\* C19: for the six hooks, a check or fetch that resolves, successfully or
\* with an error, after the cleanup of the effect run that issued it (the
\* view unmounted, or the effect ran again) writes none of data, loading,
\* error or the boolean result; the cleanup leaves the request in flight.
C19_NoWriteAfterCleanup ==
    /\ (last.op \in HookKinds /\ last.phase = "settle" /\ last.key = "cleaned")
           => HookState(hook) = hook.prev
    /\ (last.op = "unmount")
           => /\ BagCardinality(calls) = last.value.before
              /\ \A c \in BagToSet(calls) : c.op \in HookKinds => c.key = "cleaned"

\* A fetch was rejected after the view unmounted while loading.
C19_Witness ==
    /\ last.op \in FetchHooks
    /\ last.phase = "settle"
    /\ last.key = "cleaned"
    /\ last.outcome = "rejected"
    /\ ~hook.mounted
    /\ hook.kind = last.op
    /\ hook.loading
    /\ hook.error = None

\* A check resolved true after the view unmounted.
C19_CheckReached ==
    /\ last.op = "useRole"
    /\ last.phase = "settle"
    /\ last.key = "cleaned"
    /\ last.value = BoolValue(TRUE)
    /\ ~hook.mounted
    /\ hook.kind = "useRole"
    /\ ~hook.hasAccess

\* The unmount left the request of the hook in flight.
C19_StillInFlight ==
    /\ last.op = "unmount"
    /\ \E c \in BagToSet(calls) : c.op \in HookKinds

\* C21: getToken() returns null on a fresh client, returns t after
\* setToken(t) whatever was set before, and returns null after clearToken().
C21_TokenAccessors ==
    /\ last.op = "new" => getToken = None
    /\ last.op = "setToken" => getToken = last.arg
    /\ last.op = "clearToken" => getToken = None

\* setToken replaced a token set earlier by a different one.
C21_Witness ==
    /\ last.op = "setToken"
    /\ last.was.token \in Tokens
    /\ last.was.token # last.arg
    /\ getToken = last.arg

\* clearToken ran on a client that held a token.
C21_ClearReached ==
    /\ last.op = "clearToken"
    /\ last.was.token \in Tokens
    /\ getToken = None

\* C24: when the remote /auth/logout-all call fails, logoutAll rejects with
\* a normalized error and leaves the current token and the cache as they
\* were; when it succeeds, token and cache are cleared. logout clears both
\* on either outcome and resolves.
C24_LogoutAllAsymmetry ==
    /\ (last.op = "logoutAll" /\ last.phase = "settle" /\ last.resp = "error")
           => /\ last.outcome = "rejected"
              /\ last.value.kind = "error"
              /\ last.value.error.message
                     \in {<<"Logout all failed", ": ", "Network Error">>,
                          <<"Unauthenticated.">>}
              /\ token = last.was.token
              /\ tokenCache = last.was.cache
    /\ (last.op = "logoutAll" /\ last.phase = "settle" /\ last.resp = "2xx")
           => /\ last.outcome = "resolved"
              /\ token = None
              /\ tokenCache = EmptyMap
    /\ (last.op = "logout" /\ last.phase = "settle")
           => /\ last.outcome = "resolved"
              /\ token = None
              /\ tokenCache = EmptyMap

\* logoutAll failed on a client that holds a token and a cached verification.
C24_Witness ==
    /\ last.op = "logoutAll"
    /\ last.phase = "settle"
    /\ last.resp = "error"
    /\ token \in Tokens
    /\ tokenCache # EmptyMap

\* logoutAll succeeded on such a client.
C24_SuccessReached ==
    /\ last.op = "logoutAll"
    /\ last.phase = "settle"
    /\ last.resp = "2xx"
    /\ last.was.token \in Tokens
    /\ last.was.cache # EmptyMap

\* "field: joined-messages" of one field, and the segments of all fields
\* joined by "; ".
NamedFieldText(entry) == <<entry.field, ": ">> \o FieldText(entry)
NamedFieldErrorsText(errors) ==
    Join([i \in DOMAIN errors.items |-> NamedFieldText(errors.items[i])], "; ")

\* handleError was given a body with a field-error map, no top-level
\* message, and no preferred field message.
Unresolved ==
    /\ output # NoValue
    /\ output.fn = "handleError"
    /\ output.given.error.isAxios
    /\ output.given.error.hasData
    /\ output.given.error.data.message = None
    /\ output.given.error.data.errors.tag = "list"
    /\ output.given.error.data.errors.items # <<>>
    /\ ~DetailPreferred

\* C25: when the message is still unresolved and the body contains a
\* field-error map, the message of the error is the concatenation of
\* "field: joined-messages" for all fields, separated by "; ", each segment
\* naming its field. The code violates this: the segments carry the joined
\* messages only.
C25_FieldConcatenationNamesFields ==
    Unresolved
    => output.error.message = NamedFieldErrorsText(output.given.error.data.errors)

\* C25 reached: two fields, and a message that names neither.
C25_Reached ==
    /\ Unresolved
    /\ Len(output.given.error.data.errors.items) = 2
    /\ output.given.error.data.errors.items[1].msgs = <<"The phone field is required.">>
    /\ output.given.error.data.errors.items[2].msgs = <<"The phone field is required.">>
    /\ output.error.message =
          <<"The phone field is required.", "; ", "The phone field is required.">>

\* C25, the rest: the message is the messages of each field joined by ", ",
\* the fields joined by "; ", or the fallback text when that is empty.
C25_SegmentsWithoutNames ==
    Unresolved
    => output.error.message =
          IF FieldErrorsText(output.given.error.data.errors) # <<>>
          THEN FieldErrorsText(output.given.error.data.errors)
          ELSE output.given.message

\* A login method was rejected with a body that carries both a top-level
\* message and a field-error map whose first field has messages.
RejectedWithBoth(op) ==
    /\ last.op = op
    /\ last.phase = "settle"
    /\ last.resp = "error"
    /\ last.value.error.data.message # None
    /\ last.value.error.data.errors.tag = "list"
    /\ last.value.error.data.errors.items # <<>>

\* C26: when login fails with a body carrying both a top-level message and
\* a field-error map, the message of the raised error is the first field's
\* first message, not the top-level message. The code violates this: login
\* calls handleError without the preference.
C26_LoginPrefersFieldDetail ==
    RejectedWithBoth("login")
    => last.value.error.message = <<last.value.error.data.errors.items[1].msgs[1]>>

\* C26 reached: login rejected with the top-level message of the 422 body.
C26_Reached ==
    /\ RejectedWithBoth("login")
    /\ last.value.error.message = <<"The given data was invalid.">>
    /\ last.value.error.data.errors.items[1].msgs[1] = "Invalid credentials"

\* C26, the rest: loginWithPhone does prefer the field detail, and login
\* raises the top-level message.
C26_OnlyPhoneLoginPrefersDetail ==
    /\ RejectedWithBoth("loginWithPhone")
           => last.value.error.message =
                  <<last.value.error.data.errors.items[1].msgs[1]>>
    /\ RejectedWithBoth("login")
           => last.value.error.message = <<last.value.error.data.message>>

\* loginWithPhone rejected with the first field's first message.
C26_PhoneReached ==
    /\ RejectedWithBoth("loginWithPhone")
    /\ last.value.error.message = <<"Invalid credentials">>

\* C27: the result cached under token T, and the result verifyToken
\* returns for T, is a response the service produced for a request
\* authorized with T. The code violates this: with a current token T'
\* the request interceptor replaces the explicit header, and the answer
\* for T' is cached under T.
C27_CacheIntegrity ==
    /\ \A t \in Tokens :
           MapHas(tokenCache, cacheKey(t))
           => tokenCache[cacheKey(t)].data.user.id = UserOf(t)
    /\ (last.op = "verifyToken" /\ last.outcome = "resolved")
           => last.value.data.user.id = UserOf(last.key)

\* C27 reached: verifyToken("T2") on a client whose current token is "T1"
\* resolved with, and cached under "T2", the identity of "T1".
C27_Reached ==
    /\ last.op = "verifyToken"
    /\ last.phase = "settle"
    /\ last.outcome = "resolved"
    /\ last.key = "T2"
    /\ last.value.data.user.id = UserOf("T1")
    /\ MapHas(tokenCache, cacheKey("T2"))
    /\ tokenCache[cacheKey("T2")].data.user.id = UserOf("T1")

\* C27 reached, later: the entry is served from the cache to verifyToken()
\* after setToken made "T2" the current token.
C27_ServedFromCacheReached ==
    /\ last.op = "verifyToken"
    /\ last.phase = "call"
    /\ last.outcome = "resolved"
    /\ last.key = "T2"
    /\ last.was.token = "T2"
    /\ last.value.data.user.id = UserOf("T1")

\* C27, the rest: a verification request leaves with the token it verifies
\* whenever the client holds no current token or holds that very token.
C27_HoldsWithoutOtherCurrentToken ==
    (/\ last.op = "verifyToken"
     /\ last.phase = "call"
     /\ last.outcome = "pending"
     /\ last.was.token \in {None, last.key})
    => last.req.auth = last.key

\* C22: a verifyToken(T) call that finds no valid cache entry for T issues
\* its own request, whether or not another verifyToken(T) is in flight; and
\* every response that succeeds writes the entry of T, so after two racing
\* calls both succeeded the entry holds the result of the later response.
C22_VerifyRace ==
    /\ (/\ last.op = "verifyToken"
        /\ last.phase = "call"
        /\ last.key # None
        /\ ~CacheValid(last.was.cache, cacheKey(last.key), now))
           => /\ last.outcome = "pending"
              /\ last.req.path = "/auth/me"
    /\ (last.op = "verifyToken" /\ last.phase = "settle" /\ last.outcome = "resolved")
           => /\ MapHas(tokenCache, cacheKey(last.key))
              /\ tokenCache[cacheKey(last.key)] =
                     [data |-> last.value.data, timestamp |-> now]

\* The later of two racing verifications of "T1" succeeded: the entry the
\* earlier response wrote was replaced by a different result.
C22_Witness ==
    /\ last.op = "verifyToken"
    /\ last.phase = "settle"
    /\ last.outcome = "resolved"
    /\ last.key = "T1"
    /\ InFlight("verifyToken") = {}
    /\ MapHas(last.was.cache, cacheKey("T1"))
    /\ last.was.cache[cacheKey("T1")].data # last.value.data
    /\ tokenCache[cacheKey("T1")].data = last.value.data

\* Two requests of verifyToken("T1") are in flight at once.
C22_BothInFlightReached ==
    \E c \in InFlight("verifyToken") : c.key = "T1" /\ CopiesIn(c, calls) = 2

\* The step just taken cleared the cache: clearToken(), or logout() after
\* its await.
ClearJustRan ==
    \/ last.op = "clearToken"
    \/ (last.op = "logout" /\ last.phase = "settle")

\* C28: a verifyToken response that arrives after clearToken() or logout()
\* ran does not create a cache entry: the response processed right after
\* the clear, whose call had therefore started before it, leaves the cache
\* empty. The code violates this: the cache write after the await is
\* unconditional.
C28_NoCacheResurrection ==
    [][(/\ ClearJustRan
        /\ last'.op = "verifyToken"
        /\ last'.phase = "settle")
       => tokenCache' = EmptyMap]_vars

\* C28, the rest: the clear itself leaves nothing in the cache.
C28_ClearEmptiesCache ==
    ClearJustRan => tokenCache = EmptyMap

\* A verification is still in flight when logout() has just cleared.
C28_Reached ==
    /\ ClearJustRan
    /\ last.op = "logout"
    /\ tokenCache = EmptyMap
    /\ InFlight("verifyToken") # {}

TokenWriters == {"login", "loginWithPhone", "refreshToken", "logout"}

\* C23: with several login / loginWithPhone / refreshToken / logout calls in
\* flight, each response that is processed writes the current token (the
\* access_token of a login or refresh response, none after logout) whatever
\* the other calls wrote before and whichever call was started first, and a
\* failed login or refresh writes nothing: after all have settled the token
\* is the one written by the response processed last.
C23_LastWriterWins ==
    (last.op \in TokenWriters /\ last.phase = "settle")
    => /\ (last.op \in {"login", "loginWithPhone"} /\ last.outcome = "resolved")
              => token = last.value.response.access_token
       /\ (last.op = "refreshToken" /\ last.outcome = "resolved")
              => token = IF last.value.access_token # None
                         THEN last.value.access_token ELSE last.was.token
       /\ last.op = "logout" => token = None
       /\ (last.op # "logout" /\ last.resp = "error") => token = last.was.token

\* A refresh response replaced the token "T1" by "T2" while a login was in
\* flight.
C23_Witness ==
    /\ last.op = "refreshToken"
    /\ last.phase = "settle"
    /\ last.outcome = "resolved"
    /\ last.value.access_token = "T2"
    /\ last.was.token = "T1"
    /\ token = "T2"
    /\ InFlight("login") # {}

\* A login response was processed while a logout was in flight.
C23_ConcurrentReached ==
    /\ last.op = "login"
    /\ last.phase = "settle"
    /\ last.outcome = "resolved"
    /\ token = last.value.response.access_token
    /\ InFlight("logout") # {}

\* The logout was processed last: no token, although a login stored one.
C23_LogoutLastReached ==
    /\ last.op = "logout"
    /\ last.phase = "settle"
    /\ last.was.token \in Tokens
    /\ token = None
    /\ calls = EmptyBag

\* A verification of a token failed after a login had installed a
\* different token on the client.
StaleVerificationFailed ==
    /\ last.op \in {"verifyAndLoadUser", "refreshUser"}
    /\ last.phase = "settle"
    /\ last.resp = "error"
    /\ last.was.token \in Tokens
    /\ last.was.token # last.key

\* C29: when a verification of token T0 (started at initialization or by
\* refreshUser) fails after a login has installed a different token T1, the
\* reactive token and user, the client token and the persisted token of
\* the T1 session are not cleared. The code violates this: the catch calls
\* clearAuth() whatever the session is by then.
C29_StaleFailureKeepsNewSession ==
    StaleVerificationFailed
    => /\ token = last.was.token
       /\ providerToken = last.was.token
       /\ storage = last.was.token
       /\ user # NoUser

\* C29 reached: the verification of the persisted "T1" failed after the
\* login of "T2", and the "T2" session is gone.
C29_Reached ==
    /\ StaleVerificationFailed
    /\ last.op = "verifyAndLoadUser"
    /\ last.key = "T1"
    /\ last.was.token = "T2"
    /\ Cleared

\* C29 reached by refreshUser.
C29_RefreshReached ==
    /\ StaleVerificationFailed
    /\ last.op = "refreshUser"
    /\ last.key = "T1"
    /\ last.was.token = "T2"
    /\ Cleared

\* C29, the rest: every failed verification clears the whole session.
C29_EveryFailureClears ==
    (/\ last.op \in {"verifyAndLoadUser", "refreshUser"}
     /\ last.phase = "settle"
     /\ last.resp = "error")
    => Cleared

\* Every check of the route has settled and the route has rendered what the
\* provider and its own state hold.
RouteSettled ==
    /\ route.mounted
    /\ InFlight("checkAccess") = {}
    /\ ~stale
    /\ ~route.dirty

\* C30: the result of a superseded check never overwrites the decision for
\* the current inputs: once all checks have settled, hasAccess is the
\* decision for the inputs of the latest effect run, and the children are
\* not rendered for an unauthenticated user. The code violates this: the
\* continuation of checkAccess calls setHasAccess whichever run it belongs to.
C30_LatestInputsDecide ==
    RouteSettled
    => /\ route.decidedFor = route.checkingFor
       /\ ~isAuthenticated => route.view # "children"

\* C30 reached: the user logged out while a permission check was in flight;
\* the check then answered true, and the children are rendered for nobody.
C30_Reached ==
    /\ RouteSettled
    /\ calls = EmptyBag
    /\ ~isAuthenticated
    /\ providerToken = None
    /\ route.requiredPermission = "admin.access"
    /\ route.hasAccess = "true"
    /\ route.view = "children"

\* C30 reached, the step: a superseded check wrote hasAccess.
C30_OverwrittenReached ==
    /\ route.mounted
    /\ last.op = "checkAccess"
    /\ last.phase = "settle"
    /\ last.key = "superseded"
    /\ route.checkingFor = Inputs(FALSE, "admin.access", None)
    /\ route.hasAccess = "true"
====
